---- MODULE Spec2Model ----
(***************************************************************************)
(* Control plane of the Sony IMX586 V4L2 sensor driver (src/imx586.c):     *)
(* format negotiation, control application, the stream start/stop          *)
(* sequence and the runtime / system power callbacks.                      *)
(***************************************************************************)
EXTENDS Integers, Sequences, FiniteSets, TLC

(* ---------------------------------------------------------------------- *)
(* Program constants                                                       *)
(* ---------------------------------------------------------------------- *)
IMX586_MODE_STANDBY == 1
IMX586_MODE_STREAMING == 0
IMX586_VMAX_MAX == 1048575
IMX586_HMAX_MAX == 65535
IMX586_EXPOSURE_MIN == 52
IMX586_EXPOSURE_DEFAULT == 1000
IMX586_EXPOSURE_MAX == 49865
IMX586_BLKLEVEL_DEFAULT == 0
IMX586_ANA_GAIN_MIN == 0
IMX586_ANA_GAIN_MAX == 240
IMX586_ANA_GAIN_DEFAULT == 0
IMX586_ANA_GAIN_HCG_LEVEL == 51
IMX586_ANA_GAIN_HCG_THRESHOLD == IMX586_ANA_GAIN_HCG_LEVEL + 29
IMX586_ANA_GAIN_HCG_MIN == 34
IMX586_PIXEL_RATE == 74250000
\* svr and offset arguments passed at every call site of the timing functions
SVR == 0
SHR_OFFSET == 209
\* fixed calibration values written by the start sequence
CCMP1_EXP_NONLINEAR == 500
ACMP1_EXP_NONLINEAR == 2
CCMP2_EXP_NONLINEAR == 11500
ACMP2_EXP_NONLINEAR == 6
EXP_TH_H_VALUE == 4095
EXP_TH_L_VALUE == 512
\* width of the value carried by imx586_write_reg_2byte (u16 val)
U16 == 65536

(* ---------------------------------------------------------------------- *)
(* Bounds of the model                                                     *)
(* ---------------------------------------------------------------------- *)
\* the runtime-PM usage counter is capped here
MaxUsage == 2
\* operations of one behaviour in which a bus transfer fails
MaxFaults == 1
\* controls the callers of one behaviour change
MaxTouched == 1

(* ---------------------------------------------------------------------- *)
(* Mode catalog                                                            *)
(* ---------------------------------------------------------------------- *)
\* id stands for the address of the table entry (modes are compared by
\* pointer); regs names the register list of the entry.
supported_modes_12bit ==
  << [id |-> 1, width |-> 3856, height |-> 2180, hdr |-> FALSE, linear |-> TRUE,
      min_HMAX |-> 550, min_VMAX |-> 2250, default_HMAX |-> 550,
      default_VMAX |-> 2250, min_SHR |-> 20],
     [id |-> 2, width |-> 1928, height |-> 1090, hdr |-> FALSE, linear |-> TRUE,
      min_HMAX |-> 366, min_VMAX |-> 2250, default_HMAX |-> 366,
      default_VMAX |-> 2250, min_SHR |-> 20] >>

supported_modes_nonlinear_12bit ==
  << [id |-> 3, width |-> 3856, height |-> 2180, hdr |-> TRUE, linear |-> FALSE,
      min_HMAX |-> 550, min_VMAX |-> 4500, default_HMAX |-> 550,
      default_VMAX |-> 4500, min_SHR |-> 20] >>

supported_modes_16bit ==
  << [id |-> 4, width |-> 1928, height |-> 1090, hdr |-> TRUE, linear |-> TRUE,
      min_HMAX |-> 550, min_VMAX |-> 4500, default_HMAX |-> 550,
      default_VMAX |-> 4500, min_SHR |-> 20],
     [id |-> 5, width |-> 3856, height |-> 2180, hdr |-> TRUE, linear |-> TRUE,
      min_HMAX |-> 550, min_VMAX |-> 4500, default_HMAX |-> 550,
      default_VMAX |-> 4500, min_SHR |-> 20] >>

AllModes ==
  { supported_modes_12bit[i] : i \in 1..Len(supported_modes_12bit) } \cup
  { supported_modes_nonlinear_12bit[i] : i \in 1..Len(supported_modes_nonlinear_12bit) } \cup
  { supported_modes_16bit[i] : i \in 1..Len(supported_modes_16bit) }

\* flip quadruplets: no flip, h flip, v flip, h&v flips
codes ==
  << "SRGGB16_1X16", "SGRBG16_1X16", "SGBRG16_1X16", "SBGGR16_1X16",
     "SRGGB12_1X12", "SGRBG12_1X12", "SGBRG12_1X12", "SBGGR12_1X12" >>

mono_codes == << "Y16_1X16", "Y12_1X12" >>

V4L2_XFER_FUNC_DEFAULT == "XFER_DEFAULT"
V4L2_XFER_FUNC_GRADATION_COMPRESSION == "XFER_GRADATION_COMPRESSION"

(* ---------------------------------------------------------------------- *)
(* Integer helpers                                                         *)
(* ---------------------------------------------------------------------- *)
Min(a, b) == IF a < b THEN a ELSE b
Max(a, b) == IF a > b THEN a ELSE b
Clamp(v, lo, hi) == Min(Max(v, lo), hi)
Abs(a) == IF a < 0 THEN 0 - a ELSE a

\* Op applied to the value of v, v being evaluated once
Bind(v, Op(_)) == CHOOSE r \in { Op(x) : x \in { v } } : TRUE

\* <<quotient, remainder>> of a*b / c for u64 operands whose product exceeds
\* the checker's integer width: the product is built by doubling, keeping
\* only the running quotient and remainder.
RECURSIVE MulDivQR(_, _, _)
MulDivQR(a, b, c) ==
  IF a = 0 THEN << 0, 0 >>
  ELSE Bind(MulDivQR(a \div 2, b, c), LAMBDA h :
       Bind(2 * h[2] + (a % 2) * b, LAMBDA t :
         << 2 * h[1] + (t \div c), t % c >>))

\* (u64)a * b followed by do_div(., c)
MulDiv(a, b, c) == Bind(c, LAMBDA cv : MulDivQR(a, b, cv)[1])

(* ---------------------------------------------------------------------- *)
(* Timing calculator                                                       *)
(* ---------------------------------------------------------------------- *)
\* numerator = (vmax * (svr + 1) - shr) * hmax + offset; do_div(numerator, hmax)
\* (the clamp_t(uint32_t, ., 0, 0xFFFFFFFF) that follows changes no value below 2^32)
calculate_v4l2_cid_exposure(hmax, vmax, shr, svr, offset) ==
  ((vmax * (svr + 1) - shr) * hmax + offset) \div hmax

\* a derivation that hands out the two ends in the opposite order
min_max_swapped(hmax, vmax, min_shr, svr, offset) ==
  LET max_shr == Min((svr + 1) * vmax - 4, 65535)
  IN << calculate_v4l2_cid_exposure(hmax, vmax, min_shr, svr, offset),
        calculate_v4l2_cid_exposure(hmax, vmax, max_shr, svr, offset) >>

\* <<min_exposure, max_exposure>>
calculate_min_max_v4l2_cid_exposure(hmax, vmax, min_shr, svr, offset) ==
  LET max_shr == Min((svr + 1) * vmax - 4, 65535)
  IN << calculate_v4l2_cid_exposure(hmax, vmax, max_shr, svr, offset),
        calculate_v4l2_cid_exposure(hmax, vmax, min_shr, svr, offset) >>

\* temp = exposure * hmax - offset; do_div(temp, hmax); shr = vmax * (svr + 1) - temp
calculate_shr(exposure, hmax, vmax, svr, offset) ==
  LET temp == (exposure * hmax - offset) \div hmax
  IN vmax * (svr + 1) - temp

\* pixel_rate = (u64)mode->width * IMX586_PIXEL_RATE; do_div(pixel_rate, mode->min_HMAX)
mode_pixel_rate(mode) == MulDiv(mode.width, IMX586_PIXEL_RATE, mode.min_HMAX)

\* hmax = (u64)(mode->width + ctrl->val) * IMX586_PIXEL_RATE; do_div(hmax, pixel_rate)
hblank_to_hmax(mode, hblank) ==
  MulDiv(mode.width + hblank, IMX586_PIXEL_RATE, mode_pixel_rate(mode))

\* def_hblank = mode->default_HMAX * pixel_rate; do_div(., IMX586_PIXEL_RATE); - mode->width
default_hblank(mode) ==
  MulDiv(mode.default_HMAX, mode_pixel_rate(mode), IMX586_PIXEL_RATE) - mode.width

(* ---------------------------------------------------------------------- *)
(* Gain stage selection                                                    *)
(* ---------------------------------------------------------------------- *)
\* a selection that leaves out the floor of the HCG stage
gain_select_unfloored(mode, gain) ==
  IF ~mode.hdr /\ gain >= IMX586_ANA_GAIN_HCG_THRESHOLD
  THEN << gain - IMX586_ANA_GAIN_HCG_LEVEL, TRUE >>
  ELSE << gain, FALSE >>

\* a selection that switches to HCG from the HCG level on
gain_select_at_level(mode, gain) ==
  IF ~mode.hdr /\ gain >= IMX586_ANA_GAIN_HCG_LEVEL
  THEN << Max(gain - IMX586_ANA_GAIN_HCG_LEVEL, IMX586_ANA_GAIN_HCG_MIN), TRUE >>
  ELSE << gain, FALSE >>

\* <<register gain, useHGC>>
gain_select(mode, gain) ==
  IF ~mode.hdr /\ gain >= IMX586_ANA_GAIN_HCG_THRESHOLD
  THEN << Max(gain - IMX586_ANA_GAIN_HCG_LEVEL, IMX586_ANA_GAIN_HCG_MIN), TRUE >>
  ELSE << gain, FALSE >>

(* ---------------------------------------------------------------------- *)
(* Register transport and the sensor's register file                       *)
(* ---------------------------------------------------------------------- *)
\* value of a register nothing wrote since the sensor was powered up
FactoryDefault == -1
\* content of a register list whose write stopped at a failing transfer
PartialList == -2

\* the registers whose content the model keeps: the two register lists and
\* the registers written from the driver's state.  The other registers of
\* the start sequence receive fixed values and appear in the transfer log only.
Regs == { "COMMON_LIST", "MODE_LIST", "SHR", "ANALOG_GAIN", "FDG_SEL0",
          "VMAX", "HMAX", "WINMODEH", "WINMODEV", "MODE_SELECT" }

ResetRegs == [r \in Regs |-> FactoryDefault]

\* sets of failing transfer numbers of an operation of n transfers: no
\* failure, or one transfer that fails
FailSets(n) == { {} } \cup { { k } : k \in 1..n }

\* the outcomes of operation Op over the transfers that may fail in it; the
\* transfers before a failing one are those of the run without failure
Outcomes(Op(_)) ==
  Bind(Op({}), LAMBDA nominal : { Op(F) : F \in FailSets(Len(nominal.wlog)) })

\* TRUE iff the next transfer of the operation succeeds: the transfer is
\* acknowledged only by a powered sensor
XferOk(d, F) == d.powered /\ (Len(d.wlog) + 1) \notin F

\* the errno of a transfer
XferRet(ok) == IF ok THEN "OK" ELSE "EIO"

\* one i2c_master_send of value val to register reg; the result of the
\* transfer is left in ret
Xfer(d, F, reg, val) ==
  Bind(XferOk(d, F), LAMBDA ok :
    [d EXCEPT !.wlog = Append(@, [reg |-> reg, val |-> val, ok |-> ok,
                                  pw |-> d.powered]),
              !.hw = IF ok /\ reg \in Regs THEN [@ EXCEPT ![reg] = val] ELSE @,
              !.ret = XferRet(ok)])

imx586_write_reg_1byte(d, F, reg, val) == Xfer(d, F, reg, val % 256)
imx586_write_reg_2byte(d, F, reg, val) == Xfer(d, F, reg, val % U16)
imx586_write_reg_3byte(d, F, reg, val) == Xfer(d, F, reg, val % 16777216)

\* imx586_write_regs on a whole list, taken as one numbered transfer: the
\* list is written in full, or stops at a failing register.  The common list
\* and the lists of the HDR modes hold {0x3030, 0x00} (FDG_SEL0).
imx586_write_regs(d, F, list, id, hasFdg) ==
  Bind(XferOk(d, F), LAMBDA ok :
    [d EXCEPT !.wlog = Append(@, [reg |-> list, val |-> id, ok |-> ok,
                                  pw |-> d.powered]),
              !.hw = IF ok
                     THEN [@ EXCEPT ![list] = id,
                                    !["FDG_SEL0"] = IF hasFdg THEN 0 ELSE @]
                     ELSE IF d.powered THEN [@ EXCEPT ![list] = PartialList]
                     ELSE @,
              !.ret = XferRet(ok)])

\* the result of the transfer is dropped
imx586_register_hold(d, F, hold) ==
  [imx586_write_reg_1byte(d, F, "REGHOLD", IF hold THEN 1 ELSE 0) EXCEPT !.ret = d.ret]

(* ---------------------------------------------------------------------- *)
(* Runtime power management as the driver uses it                          *)
(* ---------------------------------------------------------------------- *)
\* a device taken to be in use whatever its power state
pm_always_in_use(d) == TRUE

\* pm_runtime_get_if_in_use() > 0: the device is runtime-active and somebody
\* holds a usage reference; the reference it takes is dropped again by the
\* pm_runtime_put() that ends imx586_set_ctrl.
pm_runtime_get_if_in_use(d) == d.powered /\ d.usage > 0

(* ---------------------------------------------------------------------- *)
(* Controls                                                                *)
(* ---------------------------------------------------------------------- *)
\* creation order in imx586_init_controls, which is the order in which
\* __v4l2_ctrl_handler_setup walks the handler; the read-only pixel rate is
\* skipped by the walk.
SetupOrder == << "vblank", "hblank", "exposure", "gain", "hflip", "vflip" >>

CtrlNames == { "pixel_rate", "vblank", "hblank", "exposure", "gain", "hflip", "vflip" }

\* a validation that lets every value through
validate_unclamped(c, v) == v

\* validation of a new value of an integer or boolean control with step 1:
\* the value is clamped into the control's range, never refused
validate_new(c, v) == Clamp(v, c.min, c.max)

RECURSIVE imx586_set_ctrl(_, _, _, _, _)

\* try_or_set_cluster for a single control: a grabbed control is busy, an
\* unchanged value is not handed to the driver, and the new value becomes
\* the current one only when the driver's s_ctrl returned 0.
try_or_set_cluster(d, F, G, name, v) ==
  IF d.ctrl[name].grabbed THEN [d EXCEPT !.ret = "EBUSY"]
  ELSE IF v = d.ctrl[name].val THEN [d EXCEPT !.ret = "OK"]
  ELSE Bind(imx586_set_ctrl(d, F, G, name, v), LAMBDA r :
         IF r.ret = "OK" THEN [r EXCEPT !.ctrl[name].val = v] ELSE r)

\* set_ctrl of the control framework: VIDIOC_S_CTRL and __v4l2_ctrl_s_ctrl
v4l2_ctrl_s_ctrl(d, F, G, name, v) ==
  try_or_set_cluster(d, F, G, name, validate_new(d.ctrl[name], v))

\* __v4l2_ctrl_modify_range: a range check_range refuses changes nothing;
\* otherwise the range is replaced and the current value is validated against
\* it, going through s_ctrl when that changes the value.
v4l2_ctrl_modify_range(d, F, G, name, min, max, def) ==
  IF min > max \/ def < min \/ def > max THEN [d EXCEPT !.ret = "ERANGE"]
  ELSE Bind([d EXCEPT !.ctrl[name].min = min, !.ctrl[name].max = max,
                      !.ctrl[name].def = def], LAMBDA d1 :
       Bind(validate_new(d1.ctrl[name], d1.ctrl[name].val), LAMBDA nv :
         IF nv # d1.ctrl[name].val
         THEN try_or_set_cluster(d1, F, G, name, nv)
         ELSE [d1 EXCEPT !.ret = "OK"]))

\* the analogue gain case: the result of the gain write is logged and then
\* overwritten by the result of the stage write
write_gain(d, F, val) ==
  Bind(gain_select(d.mode, val), LAMBDA g :
  Bind(imx586_register_hold(d, F, TRUE), LAMBDA d1 :
  Bind(imx586_write_reg_2byte(d1, F, "ANALOG_GAIN", g[1]), LAMBDA d2 :
  Bind(imx586_write_reg_1byte(d2, F, "FDG_SEL0", IF g[2] THEN 1 ELSE 0), LAMBDA d3 :
    imx586_register_hold(d3, F, FALSE)))))

\* the switch of imx586_set_ctrl: the register(s) of control id are written
\* with value val
ctrl_write(d, F, id, val) ==
  CASE id = "exposure" ->
         imx586_write_reg_2byte(d, F, "SHR",
                                calculate_shr(val, d.HMAX, d.VMAX, SVR, SHR_OFFSET))
    [] id = "gain" -> write_gain(d, F, val)
    [] id = "vblank" ->
         Bind([d EXCEPT !.VMAX = d.mode.height + val], LAMBDA d1 :
           imx586_write_reg_3byte(d1, F, "VMAX", d1.VMAX))
    [] id = "hblank" ->
         Bind(hblank_to_hmax(d.mode, val), LAMBDA hmax :
           imx586_write_reg_2byte([d EXCEPT !.HMAX = hmax % U16], F, "HMAX", hmax))
    [] id = "hflip" -> imx586_write_reg_1byte(d, F, "WINMODEH", val)
    [] id = "vflip" -> imx586_write_reg_1byte(d, F, "WINMODEV", val)
    [] OTHER -> [d EXCEPT !.ret = "OK"]

\* the VBLANK block that opens imx586_set_ctrl: the frame length follows the
\* new value and the exposure range is re-derived.  G is the value found in
\* the local current_exposure, which nothing assigned before it is clamped.
vblank_update_exposure(d, F, G, val) ==
  Bind([d EXCEPT !.VMAX = d.mode.height + val], LAMBDA d1 :
  Bind(calculate_min_max_v4l2_cid_exposure(d1.HMAX, d1.VMAX, d1.mode.min_SHR,
                                           SVR, SHR_OFFSET), LAMBDA mm :
    v4l2_ctrl_modify_range(d1, F, G, "exposure", mm[1], mm[2], Clamp(G, mm[1], mm[2]))))

imx586_set_ctrl(d, F, G, id, val) ==
  Bind(IF id = "vblank" THEN vblank_update_exposure(d, F, G, val) ELSE d, LAMBDA d1 :
    IF ~pm_runtime_get_if_in_use(d1) THEN [d1 EXCEPT !.ret = "OK"]
    ELSE ctrl_write(d1, F, id, val))

\* __v4l2_ctrl_handler_setup from the i-th control on: s_ctrl is called with
\* the control's current value, grabbed or not, and the walk stops at the
\* first failure.
RECURSIVE handler_setup_from(_, _, _, _)
handler_setup_from(d, F, G, i) ==
  IF i > Len(SetupOrder) THEN [d EXCEPT !.ret = "OK"]
  ELSE Bind(imx586_set_ctrl(d, F, G, SetupOrder[i], d.ctrl[SetupOrder[i]].val), LAMBDA r :
         IF r.ret # "OK" THEN r ELSE handler_setup_from(r, F, G, i + 1))

v4l2_ctrl_handler_setup(d, F, G) == handler_setup_from(d, F, G, 1)

(* ---------------------------------------------------------------------- *)
(* Format resolution and mode commit                                       *)
(* ---------------------------------------------------------------------- *)
SeqIndex(seq, x) == { i \in 1..Len(seq) : seq[i] = x }

\* codes of the device's capability table
CapabilityCodes(isMono) ==
  IF isMono THEN { mono_codes[i] : i \in 1..Len(mono_codes) }
  ELSE { codes[i] : i \in 1..Len(codes) }

\* a code neither capability table holds
MEDIA_BUS_FMT_RGB888_1X24 == "RGB888_1X24"

\* values the word behind the end of a capability table may hold: a code of
\* either table, or one of neither
PastTable == { mono_codes[1], codes[1], MEDIA_BUS_FMT_RGB888_1X24 }

\* the search loop of imx586_get_format_code: the index at which it stops,
\* which is one past the last entry when no entry matches
format_code_index(table, code) ==
  IF SeqIndex(table, code) = {} THEN Len(table) + 1
  ELSE CHOOSE k \in SeqIndex(table, code) : \A j \in SeqIndex(table, code) : k <= j

\* a resolver that answers with the table's first code whatever is asked
first_format_code(isMono, code, past) == IF isMono THEN mono_codes[1] ELSE codes[1]

\* return table[i] after the loop; past is the word found at table[i] when i
\* is behind the end of the table
imx586_get_format_code(isMono, code, past) ==
  LET table == IF isMono THEN mono_codes ELSE codes
      i     == format_code_index(table, code)
  IN IF i <= Len(table) THEN table[i] ELSE past

Is16bit(code) ==
  code \in { "Y16_1X16", "SRGGB16_1X16", "SGRBG16_1X16", "SGBRG16_1X16", "SBGGR16_1X16" }

\* a mode list chosen by the code alone, whatever the transfer function
mode_table_by_code(isMono, code, transfer_function) ==
  IF code \notin CapabilityCodes(isMono) THEN << >>
  ELSE IF Is16bit(code) THEN supported_modes_16bit
  ELSE supported_modes_12bit

\* the mode list of a code; << >> is the NULL list of the default branches
get_mode_table(isMono, code, transfer_function) ==
  IF code \notin CapabilityCodes(isMono) THEN << >>
  ELSE IF Is16bit(code) THEN supported_modes_16bit
  ELSE IF transfer_function = V4L2_XFER_FUNC_GRADATION_COMPRESSION
       THEN supported_modes_nonlinear_12bit
       ELSE supported_modes_12bit

\* a nearest-size search that keeps the first entry of least error
find_nearest_size_first(list, width, height) ==
  LET err(i) == Abs(list[i].width - width) + Abs(list[i].height - height)
      best   == CHOOSE i \in 1..Len(list) :
                  /\ \A j \in 1..Len(list) : err(i) <= err(j)
                  /\ \A j \in 1..(i - 1) : err(j) > err(i)
  IN list[best]

\* v4l2_find_nearest_size on a list that is not NULL: the loop replaces its
\* best entry whenever the error |dw| + |dh| is not greater than the least
\* seen so far and stops at an exact match, so among entries of equal least
\* error the last one is returned
v4l2_find_nearest_size(list, width, height) ==
  LET err(i) == Abs(list[i].width - width) + Abs(list[i].height - height)
      best   == CHOOSE i \in 1..Len(list) :
                  /\ \A j \in 1..Len(list) : err(i) <= err(j)
                  /\ IF err(i) = 0 THEN \A j \in 1..(i - 1) : err(j) > 0
                     ELSE \A j \in (i + 1)..Len(list) : err(j) > err(i)
  IN list[best]

\* imx586_update_image_pad_format with imx586_reset_colorspace
image_pad_format(mode, code) ==
  [code |-> code, width |-> mode.width, height |-> mode.height,
   xfer_func |-> IF mode.linear THEN V4L2_XFER_FUNC_DEFAULT
                 ELSE V4L2_XFER_FUNC_GRADATION_COMPRESSION]

\* framing limits that leave the pixel rate control as it is
framing_limits_keeping_pixel_rate(d, F, G) ==
  Bind(d.mode, LAMBDA mode :
  Bind(default_hblank(mode), LAMBDA def_hblank :
  Bind([d EXCEPT !.VMAX = mode.default_VMAX, !.HMAX = mode.default_HMAX], LAMBDA d1 :
  Bind(v4l2_ctrl_modify_range(d1, F, G, "hblank", 0, IMX586_HMAX_MAX, def_hblank), LAMBDA d2 :
  Bind(v4l2_ctrl_s_ctrl(d2, F, G, "hblank", def_hblank), LAMBDA d3 :
  Bind(v4l2_ctrl_modify_range(d3, F, G, "vblank", mode.min_VMAX - mode.height,
                              IMX586_VMAX_MAX - mode.height,
                              mode.default_VMAX - mode.height), LAMBDA d4 :
    v4l2_ctrl_s_ctrl(d4, F, G, "vblank", mode.default_VMAX - mode.height)))))))

imx586_set_framing_limits(d, F, G) ==
  Bind(d.mode, LAMBDA mode :
  Bind(mode_pixel_rate(mode), LAMBDA pixel_rate :
  Bind(default_hblank(mode), LAMBDA def_hblank :
  Bind([d EXCEPT !.VMAX = mode.default_VMAX, !.HMAX = mode.default_HMAX], LAMBDA d1 :
  Bind(v4l2_ctrl_modify_range(d1, F, G, "hblank", 0, IMX586_HMAX_MAX, def_hblank), LAMBDA d2 :
  Bind(v4l2_ctrl_s_ctrl(d2, F, G, "hblank", def_hblank), LAMBDA d3 :
  Bind(v4l2_ctrl_modify_range(d3, F, G, "vblank", mode.min_VMAX - mode.height,
                              IMX586_VMAX_MAX - mode.height,
                              mode.default_VMAX - mode.height), LAMBDA d4 :
  Bind(v4l2_ctrl_s_ctrl(d4, F, G, "vblank", mode.default_VMAX - mode.height), LAMBDA d5 :
    v4l2_ctrl_modify_range(d5, F, G, "pixel_rate", pixel_rate, pixel_rate,
                           pixel_rate)))))))))

\* a commit test that takes every resolved mode for a new one
mode_always_changed(d, m) == TRUE

\* imx586->mode != mode
mode_changed(d, m) == d.mode # m

\* a set_pad_format that commits the resolved mode for either target
set_pad_format_committing_try(d, F, G, which, code, xfer, width, height, past) ==
  Bind(imx586_get_format_code(d.mono, code, past), LAMBDA c :
  Bind(get_mode_table(d.mono, c, xfer), LAMBDA list :
    IF Len(list) = 0 THEN [d EXCEPT !.ret = "OOPS"]
    ELSE Bind(v4l2_find_nearest_size(list, width, height), LAMBDA m :
      Bind(IF which = "TRY" THEN [d EXCEPT !.try_fmt = image_pad_format(m, c)] ELSE d,
           LAMBDA d1 :
        IF mode_changed(d1, m)
        THEN [imx586_set_framing_limits([d1 EXCEPT !.mode = m, !.fmt_code = c], F, G)
                EXCEPT !.ret = "OK"]
        ELSE [d1 EXCEPT !.ret = "OK"]))))

\* imx586_set_pad_format on the image pad; which is "TRY" or "ACTIVE".  For a
\* NULL mode list v4l2_find_nearest_size returns NULL, which
\* imx586_update_image_pad_format dereferences: the call ends in a kernel
\* oops before anything is stored.
imx586_set_pad_format(d, F, G, which, code, xfer, width, height, past) ==
  Bind(imx586_get_format_code(d.mono, code, past), LAMBDA c :
  Bind(get_mode_table(d.mono, c, xfer), LAMBDA list :
    IF Len(list) = 0 THEN [d EXCEPT !.ret = "OOPS"]
    ELSE Bind(v4l2_find_nearest_size(list, width, height), LAMBDA m :
      IF which = "TRY" THEN [d EXCEPT !.try_fmt = image_pad_format(m, c), !.ret = "OK"]
      ELSE IF mode_changed(d, m)
           THEN [imx586_set_framing_limits([d EXCEPT !.mode = m, !.fmt_code = c], F, G)
                   EXCEPT !.ret = "OK"]
           ELSE [d EXCEPT !.ret = "OK"])))

\* the format imx586_set_pad_format hands back in fmt->format for a request
\* on the image pad that resolves to a mode: the resolved code with the
\* resolved mode's size, whatever the target and whether or not the mode is
\* committed
set_pad_format_reply(d, code, xfer, width, height, past) ==
  Bind(imx586_get_format_code(d.mono, code, past), LAMBDA c :
    image_pad_format(v4l2_find_nearest_size(get_mode_table(d.mono, c, xfer), width, height), c))

\* imx586_get_pad_format on the image pad: the try format with its code
\* resolved again, or the format of imx586->mode with imx586->fmt_code
imx586_get_pad_format(d, which) ==
  IF which = "TRY"
  THEN [d.try_fmt EXCEPT !.code = imx586_get_format_code(d.mono, @, @)]
  ELSE image_pad_format(d.mode, imx586_get_format_code(d.mono, d.fmt_code, d.fmt_code))

(* ---------------------------------------------------------------------- *)
(* Streaming sequencer                                                     *)
(* ---------------------------------------------------------------------- *)
\* the register lists of the HDR modes hold FDG_SEL0
ModeHasFdg(mode) == mode.hdr

\* a compression block that writes the curve whatever the mode
write_curve_always(d, F) ==
  Bind(imx586_write_reg_3byte(d, F, "CCMP1_EXP", CCMP1_EXP_NONLINEAR), LAMBDA d1 :
  Bind(imx586_write_reg_1byte(d1, F, "ACMP1_EXP", ACMP1_EXP_NONLINEAR), LAMBDA d2 :
  Bind(imx586_write_reg_3byte(d2, F, "CCMP2_EXP", CCMP2_EXP_NONLINEAR), LAMBDA d3 :
    [imx586_write_reg_1byte(d3, F, "ACMP2_EXP", ACMP2_EXP_NONLINEAR) EXCEPT !.ret = "OK"])))

\* the gradation-compression block of the start sequence; no result is kept
write_compression_curve(d, F) ==
  Bind(~d.mode.linear, LAMBDA nl :
  Bind(imx586_write_reg_3byte(d, F, "CCMP1_EXP", IF nl THEN CCMP1_EXP_NONLINEAR ELSE 0),
       LAMBDA d1 :
  Bind(imx586_write_reg_1byte(d1, F, "ACMP1_EXP", IF nl THEN ACMP1_EXP_NONLINEAR ELSE 0),
       LAMBDA d2 :
  Bind(imx586_write_reg_3byte(d2, F, "CCMP2_EXP", IF nl THEN CCMP2_EXP_NONLINEAR ELSE 0),
       LAMBDA d3 :
    [imx586_write_reg_1byte(d3, F, "ACMP2_EXP", IF nl THEN ACMP2_EXP_NONLINEAR ELSE 0)
       EXCEPT !.ret = "OK"]))))

\* an HDR combining block that writes its registers whatever the mode
write_hdr_always(d, F) ==
  Bind(imx586_write_reg_2byte(d, F, "EXP_TH_H", EXP_TH_H_VALUE), LAMBDA d1 :
  Bind(imx586_write_reg_2byte(d1, F, "EXP_TH_L", EXP_TH_L_VALUE), LAMBDA d2 :
    [imx586_write_reg_1byte(d2, F, "EXP_BK", 0) EXCEPT !.ret = "OK"]))

\* the HDR combining block of the start sequence; no result is kept
write_hdr_thresholds(d, F) ==
  IF d.mode.hdr
  THEN Bind(imx586_write_reg_2byte(d, F, "EXP_TH_H", EXP_TH_H_VALUE), LAMBDA d1 :
       Bind(imx586_write_reg_2byte(d1, F, "EXP_TH_L", EXP_TH_L_VALUE), LAMBDA d2 :
         [imx586_write_reg_1byte(d2, F, "EXP_BK", 0) EXCEPT !.ret = "OK"]))
  ELSE d

\* a start sequence without the digital clamp write
skip_digital_clamp(d, F) == d

\* the digital clamp write; no result is kept
write_digital_clamp(d, F) ==
  [imx586_write_reg_1byte(d, F, "DIGITAL_CLAMP", 0) EXCEPT !.ret = "OK"]

\* the black level write that follows the common list; no result is kept
write_black_level(d, F) ==
  [imx586_write_reg_2byte(d, F, "BLKLEVEL", IMX586_BLKLEVEL_DEFAULT) EXCEPT !.ret = "OK"]

\* the common-register block of the start sequence
write_common(d, F) ==
  IF d.common_regs_written THEN [d EXCEPT !.ret = "OK"]
  ELSE Bind(imx586_write_regs(d, F, "COMMON_LIST", 1, TRUE), LAMBDA d1 :
         IF d1.ret # "OK" THEN d1
         ELSE [write_black_level(d1, F) EXCEPT !.common_regs_written = TRUE])

\* the start sequence from the mode list on
start_from_mode_list(d, F, G) ==
  Bind(imx586_write_regs(d, F, "MODE_LIST", d.mode.id, ModeHasFdg(d.mode)), LAMBDA d2 :
    IF d2.ret # "OK" THEN d2
    ELSE Bind(write_compression_curve(d2, F), LAMBDA d3 :
         Bind(write_hdr_thresholds(d3, F), LAMBDA d4 :
         Bind(write_digital_clamp(d4, F), LAMBDA d5 :
         Bind(v4l2_ctrl_handler_setup(d5, F, G), LAMBDA d6 :
           IF d6.ret # "OK" THEN d6
           ELSE imx586_write_reg_1byte(d6, F, "MODE_SELECT", IMX586_MODE_STREAMING))))))

imx586_start_streaming(d, F, G) ==
  Bind(write_common(d, F), LAMBDA d1 :
    IF d1.ret # "OK" THEN d1 ELSE start_from_mode_list(d1, F, G))

\* a stop whose transfer result is kept
stop_streaming_reporting(d, F) ==
  imx586_write_reg_1byte(d, F, "MODE_SELECT", IMX586_MODE_STANDBY)

\* the result of the transfer is logged and dropped
imx586_stop_streaming(d, F) ==
  [imx586_write_reg_1byte(d, F, "MODE_SELECT", IMX586_MODE_STANDBY) EXCEPT !.ret = d.ret]

(* ---------------------------------------------------------------------- *)
(* Power                                                                   *)
(* ---------------------------------------------------------------------- *)
\* imx586_power_on: regulators, clock and reset released, unless a supply or
\* the clock fails.  The sensor comes up with its registers at their defaults.
imx586_power_on(d, pwrFail) ==
  IF pwrFail THEN [d EXCEPT !.ret = "EPOWER"]
  ELSE [d EXCEPT !.powered = TRUE, !.hw = ResetRegs, !.ret = "OK"]

\* a power_off that leaves the flag of the common registers alone
power_off_keeping_flag(d) == [d EXCEPT !.powered = FALSE, !.hw = ResetRegs]

imx586_power_off(d) ==
  [d EXCEPT !.powered = FALSE, !.hw = ResetRegs, !.common_regs_written = FALSE]

\* pm_runtime_get_sync: the usage count is raised and a runtime-suspended
\* device is resumed through imx586_power_on
pm_runtime_get_sync(d, pwrFail) ==
  IF d.powered THEN [d EXCEPT !.usage = @ + 1, !.ret = "OK"]
  ELSE imx586_power_on([d EXCEPT !.usage = @ + 1], pwrFail)

\* pm_runtime_put / pm_runtime_put_noidle: the count is dropped; the suspend
\* of an unused device happens later (RuntimeSuspend)
pm_runtime_put(d) == [d EXCEPT !.usage = @ - 1]

\* the controls __v4l2_ctrl_grab is applied to when the stream state changes
GrabbedOnStream == { "vflip" }

v4l2_ctrl_grab(d, enable) ==
  [d EXCEPT !.ctrl = [n \in CtrlNames |->
                        IF n \in GrabbedOnStream THEN [@[n] EXCEPT !.grabbed = enable]
                        ELSE @[n]]]

\* imx586->streaming = enable, followed by the grab of the frozen controls
stream_commit(d, enable) == v4l2_ctrl_grab([d EXCEPT !.streaming = enable], enable)

\* a set_stream that never returns at once
stream_never_noop(d, enable) == FALSE

\* TRUE iff set_stream returns at once
stream_is_noop(d, enable) == d.streaming = enable

\* the enable branch of imx586_set_stream up to the error labels
stream_on(d, F, G, pwrFail) ==
  Bind(pm_runtime_get_sync(d, pwrFail), LAMBDA d1 :
    IF d1.ret # "OK" THEN pm_runtime_put(d1)
    ELSE Bind(imx586_start_streaming(d1, F, G), LAMBDA d2 :
           IF d2.ret # "OK" THEN pm_runtime_put(d2)
           ELSE stream_commit(d2, TRUE)))

\* the local ret starts at 0 and imx586_stop_streaming returns nothing
imx586_set_stream(d, F, G, enable, pwrFail) ==
  Bind([d EXCEPT !.ret = "OK"], LAMBDA d0 :
    IF stream_is_noop(d0, enable) THEN d0
    ELSE IF enable THEN stream_on(d0, F, G, pwrFail)
    ELSE stream_commit(pm_runtime_put(imx586_stop_streaming(d0, F)), FALSE))

imx586_suspend(d, F) ==
  [(IF d.streaming THEN imx586_stop_streaming(d, F) ELSE d) EXCEPT !.ret = "OK"]

\* a resume whose failure path leaves the streaming flag alone
resume_keeping_flag(d, F, G) ==
  IF d.streaming
  THEN Bind(imx586_start_streaming(d, F, G), LAMBDA d1 :
         IF d1.ret # "OK" THEN imx586_stop_streaming(d1, F) ELSE d1)
  ELSE [d EXCEPT !.ret = "OK"]

imx586_resume(d, F, G) ==
  IF d.streaming
  THEN Bind(imx586_start_streaming(d, F, G), LAMBDA d1 :
         IF d1.ret # "OK"
         THEN [imx586_stop_streaming(d1, F) EXCEPT !.streaming = FALSE]
         ELSE d1)
  ELSE [d EXCEPT !.ret = "OK"]

(* ---------------------------------------------------------------------- *)
(* State                                                                   *)
(* ---------------------------------------------------------------------- *)
VARIABLES
  mono,                 \* imx586->mono, fixed at probe
  mode,                 \* imx586->mode
  fmt_code,             \* imx586->fmt_code
  try_fmt,              \* the try format of the image pad
  HMAX,                 \* imx586->HMAX
  VMAX,                 \* imx586->VMAX
  streaming,            \* imx586->streaming
  common_regs_written,  \* imx586->common_regs_written
  ctrl,                 \* the controls: value, range, default, grabbed flag
  usage,                \* runtime-PM usage count of the device
  powered,              \* inside the imx586_power_on / imx586_power_off bracket
  suspended,            \* between imx586_suspend and imx586_resume
  hw,                   \* the sensor's registers
  touched,              \* controls the callers have set so far
  faults,               \* operations so far in which a transfer failed
  pc,                   \* per caller: "idle", or the entry point it is inside
  holder                \* per lock: the caller that holds it, or NoThread

vars == << mono, mode, fmt_code, try_fmt, HMAX, VMAX, streaming,
           common_regs_written, ctrl, usage, powered, suspended, hw,
           touched, faults, pc, holder >>

\* the device as the handlers see it when an operation begins; wlog collects
\* the bus transfers of the operation and ret its return value
St ==
  [mono |-> mono, mode |-> mode, fmt_code |-> fmt_code, try_fmt |-> try_fmt,
   HMAX |-> HMAX, VMAX |-> VMAX, streaming |-> streaming,
   common_regs_written |-> common_regs_written, ctrl |-> ctrl, usage |-> usage,
   powered |-> powered, suspended |-> suspended, hw |-> hw, wlog |-> << >>,
   ret |-> "OK"]

\* TRUE iff a transfer of the log failed
Faulty(log) == \E k \in 1..Len(log) : ~log[k].ok

\* the device after an operation ended in r
Commit(r) ==
  /\ mono' = r.mono
  /\ mode' = r.mode
  /\ fmt_code' = r.fmt_code
  /\ try_fmt' = r.try_fmt
  /\ HMAX' = r.HMAX
  /\ VMAX' = r.VMAX
  /\ streaming' = r.streaming
  /\ common_regs_written' = r.common_regs_written
  /\ ctrl' = r.ctrl
  /\ usage' = r.usage
  /\ powered' = r.powered
  /\ suspended' = r.suspended
  /\ hw' = r.hw
  /\ faults' = faults + (IF Faulty(r.wlog) THEN 1 ELSE 0)

\* values an unassigned u32 local may hold
UninitU32 == { 0, 2147483647 }

\* outcomes of imx586_power_on when a runtime resume is needed
PowerFails(d) == IF d.powered THEN { FALSE } ELSE BOOLEAN

\* the outcomes of Op the bus may still produce in this behaviour
Runs(Op(_)) == IF faults < MaxFaults THEN Outcomes(Op) ELSE { Op({}) }

\* requests of the callers
VblankReqs == { 100000 }
HblankReqs == { 200 }
ExposureReqs == { 50000 }
GainReqs == { 100 }
FlipReqs == { 0, 1 }
Sizes == { << 3840, 2160 >> }
XferFuncs == { V4L2_XFER_FUNC_DEFAULT, V4L2_XFER_FUNC_GRADATION_COMPRESSION }
FormatReqs(isMono) ==
  IF isMono THEN { "Y16_1X16", "Y12_1X12" } ELSE { "SRGGB16_1X16", "SRGGB12_1X12" }

CtrlReqs(name) ==
  CASE name = "vblank" -> VblankReqs
    [] name = "hblank" -> HblankReqs
    [] name = "exposure" -> ExposureReqs
    [] name = "gain" -> GainReqs
    [] OTHER -> FlipReqs

\* values the uninitialised local of the VBLANK block may hold when control
\* name is set
UninitFor(name) == IF name = "vblank" THEN UninitU32 ELSE { 0 }

\* the controls as v4l2_ctrl_new_std creates them in imx586_init_controls
InitCtrl ==
  [n \in CtrlNames |->
     CASE n = "pixel_rate" -> [val |-> 65535, min |-> 65535, max |-> 65535,
                                def |-> 65535, grabbed |-> FALSE]
       [] n = "vblank" -> [val |-> 0, min |-> 0, max |-> IMX586_VMAX_MAX,
                            def |-> 0, grabbed |-> FALSE]
       [] n = "hblank" -> [val |-> 0, min |-> 0, max |-> IMX586_HMAX_MAX,
                            def |-> 0, grabbed |-> FALSE]
       [] n = "exposure" -> [val |-> IMX586_EXPOSURE_DEFAULT, min |-> IMX586_EXPOSURE_MIN,
                              max |-> IMX586_EXPOSURE_MAX, def |-> IMX586_EXPOSURE_DEFAULT,
                              grabbed |-> FALSE]
       [] n = "gain" -> [val |-> IMX586_ANA_GAIN_DEFAULT, min |-> IMX586_ANA_GAIN_MIN,
                          max |-> IMX586_ANA_GAIN_MAX, def |-> IMX586_ANA_GAIN_DEFAULT,
                          grabbed |-> FALSE]
       [] OTHER -> [val |-> 0, min |-> 0, max |-> 1, def |-> 0, grabbed |-> FALSE]]

\* imx586_set_default_format
default_fmt_code(isMono) == IF isMono THEN "Y12_1X12" ELSE "SRGGB12_1X12"

\* the device imx586_probe has built when it calls imx586_init_controls: the
\* zeroed structure, the default format, the sensor powered down again by
\* pm_runtime_idle
ProbeState(isMono) ==
  [mono |-> isMono, mode |-> supported_modes_12bit[1],
   fmt_code |-> default_fmt_code(isMono),
   try_fmt |-> [code |-> imx586_get_format_code(isMono, default_fmt_code(isMono),
                                                default_fmt_code(isMono)),
                width |-> supported_modes_12bit[1].width,
                height |-> supported_modes_12bit[1].height,
                xfer_func |-> V4L2_XFER_FUNC_DEFAULT],
   HMAX |-> 0, VMAX |-> 0, streaming |-> FALSE, common_regs_written |-> FALSE,
   ctrl |-> InitCtrl, usage |-> 0, powered |-> FALSE, suspended |-> FALSE,
   hw |-> ResetRegs, wlog |-> << >>, ret |-> "OK"]

\* callers of the entry points, and the locks they may take
Threads == { "t1", "t2" }
NoThread == "none"
DeviceMutex == "imx586.mutex"
HandlerOwnLock == "ctrl_handler._lock"
Locks == { DeviceMutex, HandlerOwnLock }

\* imx586_init_controls ends with imx586_set_framing_limits; spent is the
\* number of failing operations the behaviour has behind it
InitDevice(isMono, spent) ==
  \E G \in UninitU32 :
    \E r \in { imx586_set_framing_limits(ProbeState(isMono), {}, G) } :
       /\ mono = r.mono /\ mode = r.mode /\ fmt_code = r.fmt_code
       /\ try_fmt = r.try_fmt /\ HMAX = r.HMAX /\ VMAX = r.VMAX
       /\ streaming = r.streaming /\ common_regs_written = r.common_regs_written
       /\ ctrl = r.ctrl /\ usage = r.usage /\ powered = r.powered
       /\ suspended = r.suspended /\ hw = r.hw
       /\ touched = {} /\ faults = spent
       /\ pc = [t \in Threads |-> "idle"]
       /\ holder = [l \in Locks |-> NoThread]

\* a colour sensor after probe
Init == InitDevice(FALSE, 0)

(* ---------------------------------------------------------------------- *)
(* Outcomes of the entry points in the current state                       *)
(* ---------------------------------------------------------------------- *)
\* the controls a caller can set
Writable == { SetupOrder[i] : i \in 1..Len(SetupOrder) }

\* s_stream(1); the runtime resume it may need can fail
StartOutcomes ==
  UNION { Runs(LAMBDA F : imx586_set_stream(St, F, G, TRUE, pwrFail)) :
            pwrFail \in PowerFails(St), G \in UninitU32 }

\* s_stream(0)
StopOutcomes == Runs(LAMBDA F : imx586_set_stream(St, F, 0, FALSE, FALSE))

SuspendOutcomes == Runs(LAMBDA F : imx586_suspend(St, F))

ResumeOutcomes == UNION { Runs(LAMBDA F : imx586_resume(St, F, G)) : G \in UninitU32 }

\* VIDIOC_S_CTRL of value v on control name
SetControlRuns(name, v) ==
  UNION { Runs(LAMBDA F : v4l2_ctrl_s_ctrl(St, F, G, name, v)) : G \in UninitFor(name) }

SetControlOutcomes(name) == UNION { SetControlRuns(name, v) : v \in CtrlReqs(name) }

\* the words behind the end of the table a request for code may meet
PastFor(isMono, code) == IF code \in CapabilityCodes(isMono) THEN { code } ELSE PastTable

\* VIDIOC_SUBDEV_S_FMT on the image pad for one request, which = "ACTIVE" or
\* "TRY", size = <<width, height>>
SetFormatRuns(which, code, xfer, size) ==
  UNION { Runs(LAMBDA F : imx586_set_pad_format(St, F, G, which, code, xfer,
                                                size[1], size[2], past)) :
            G \in UninitU32, past \in PastFor(mono, code) }

\* VIDIOC_SUBDEV_S_FMT on the image pad over the requests of the callers
SetFormatOutcomes(which) ==
  UNION { SetFormatRuns(which, code, xfer, size) :
            code \in FormatReqs(mono), xfer \in XferFuncs, size \in Sizes }

\* a start request on d in which no transfer and no supply fails
NominalStart(d, G) ==
  imx586_set_stream([d EXCEPT !.wlog = << >>, !.ret = "OK"], {}, G, TRUE, FALSE)

(* ---------------------------------------------------------------------- *)
(* Operations                                                              *)
(* ---------------------------------------------------------------------- *)
\* the controls the callers of this behaviour may set
Settable == { name \in Writable : name \in touched \/ Cardinality(touched) < MaxTouched }

SetFormatBody(which) ==
  /\ \E r \in SetFormatOutcomes(which) : Commit(r)
  /\ UNCHANGED touched

SetControlBody ==
  \E name \in Settable :
    /\ \E r \in SetControlOutcomes(name) : Commit(r)
    /\ touched' = touched \cup { name }

\* a start that would take the usage count past its cap is left out
SetStreamBody(enable) ==
  /\ (enable /\ ~streaming) => usage < MaxUsage
  /\ \E r \in (IF enable THEN StartOutcomes ELSE StopOutcomes) : Commit(r)
  /\ UNCHANGED touched

SetFormat(which) ==
  /\ ~suspended
  /\ SetFormatBody(which)
  /\ UNCHANGED << pc, holder >>

SetControl ==
  /\ ~suspended
  /\ SetControlBody
  /\ UNCHANGED << pc, holder >>

StartStream ==
  /\ ~suspended
  /\ SetStreamBody(TRUE)
  /\ UNCHANGED << pc, holder >>

StopStream ==
  /\ ~suspended
  /\ SetStreamBody(FALSE)
  /\ UNCHANGED << pc, holder >>

\* the runtime suspend of a device nobody uses, some time after the last
\* pm_runtime_put
RuntimeSuspend ==
  /\ ~suspended
  /\ powered
  /\ usage = 0
  /\ Commit(imx586_power_off(St))
  /\ UNCHANGED << touched, pc, holder >>

\* system sleep
Suspend ==
  /\ ~suspended
  /\ \E r \in SuspendOutcomes : Commit([r EXCEPT !.suspended = TRUE])
  /\ UNCHANGED << touched, pc, holder >>

Resume ==
  /\ suspended
  /\ \E r \in ResumeOutcomes : Commit([r EXCEPT !.suspended = FALSE])
  /\ UNCHANGED << touched, pc, holder >>

Next ==
  \/ SetFormat("ACTIVE")
  \/ SetControl
  \/ StartStream
  \/ StopStream
  \/ RuntimeSuspend
  \/ Suspend
  \/ Resume

Spec == Init /\ [][Next]_vars

(* ---------------------------------------------------------------------- *)
(* Concurrent callers                                                      *)
(* ---------------------------------------------------------------------- *)
\* the entry points that run under a lock
EntryPoints == { "set_fmt", "set_ctrl", "set_stream" }

\* the lock v4l2_ctrl_handler_init gives a handler of its own
ctrl_hdlr_own_lock == HandlerOwnLock

\* ctrl_hdlr->lock = &imx586->mutex
ctrl_hdlr_lock == DeviceMutex

\* the lock taken on entry: mutex_lock(&imx586->mutex) in imx586_set_pad_format
\* and imx586_set_stream; the control framework takes the handler's lock
\* around s_ctrl
LockOf(entry) == IF entry = "set_ctrl" THEN ctrl_hdlr_lock ELSE DeviceMutex

mutex_lock(t, entry) ==
  /\ pc[t] = "idle"
  /\ holder[LockOf(entry)] = NoThread
  /\ pc' = [pc EXCEPT ![t] = entry]
  /\ holder' = [holder EXCEPT ![LockOf(entry)] = t]
  /\ UNCHANGED << mono, mode, fmt_code, try_fmt, HMAX, VMAX, streaming,
                  common_regs_written, ctrl, usage, powered, suspended, hw,
                  touched, faults >>

mutex_unlock(t) ==
  /\ pc' = [pc EXCEPT ![t] = "idle"]
  /\ holder' = [l \in Locks |-> IF holder[l] = t THEN NoThread ELSE holder[l]]

\* a caller enters one of the entry points
Enter == \E t \in Threads, entry \in EntryPoints : mutex_lock(t, entry)

\* the critical sections, each up to its mutex_unlock
RunSetFormat ==
  \E t \in Threads :
    pc[t] = "set_fmt" /\ SetFormatBody("ACTIVE") /\ mutex_unlock(t)

RunSetControl ==
  \E t \in Threads :
    pc[t] = "set_ctrl" /\ SetControlBody /\ mutex_unlock(t)

RunSetStream ==
  \E t \in Threads, enable \in BOOLEAN :
    pc[t] = "set_stream" /\ SetStreamBody(enable) /\ mutex_unlock(t)

NextLock ==
  \/ Enter
  \/ RunSetFormat
  \/ RunSetControl
  \/ RunSetStream

\* a colour sensor after probe, on a bus that acknowledges every transfer
InitLock == InitDevice(FALSE, MaxFaults)

SpecLock == InitLock /\ [][NextLock]_vars

(* ---------------------------------------------------------------------- *)
(* System sleep among concurrent callers                                   *)
(* ---------------------------------------------------------------------- *)
\* imx586_suspend and imx586_resume as the PM core calls them: neither body
\* holds a mutex_lock, so Suspend and Resume run whatever holder is
NextPM ==
  \/ Enter
  \/ RunSetFormat
  \/ RunSetControl
  \/ RunSetStream
  \/ Suspend
  \/ Resume

SpecPM == InitLock /\ [][NextPM]_vars

(* ---------------------------------------------------------------------- *)
(* Format negotiation over the whole request space                         *)
(* ---------------------------------------------------------------------- *)
V4L2_XFER_FUNC_SRGB == "XFER_SRGB"

\* the codes a caller may propose: those of both capability tables and one
\* that neither holds
AnyCodes ==
  CapabilityCodes(TRUE) \cup CapabilityCodes(FALSE) \cup { MEDIA_BUS_FMT_RGB888_1X24 }

\* transfer-function hints of a request
Hints == XferFuncs \cup { V4L2_XFER_FUNC_SRGB }

\* requested sizes: the two active-array sizes and the size halfway between
\* the two entries of a two-entry mode list
FmtSizes == { << 3840, 2160 >>, << 1920, 1080 >>, << 2892, 1635 >> }

FmtOutcomes(which) ==
  UNION { SetFormatRuns(which, code, xfer, size) :
            code \in AnyCodes, xfer \in Hints, size \in FmtSizes }

\* a call that ends in an oops has stored nothing
FmtSetFormat(which) ==
  /\ \E r \in FmtOutcomes(which) : Commit(r)
  /\ UNCHANGED << touched, pc, holder >>

FmtSetFlip ==
  /\ \E name \in { "hflip", "vflip" } : \E r \in SetControlOutcomes(name) : Commit(r)
  /\ UNCHANGED << touched, pc, holder >>

NextFmt ==
  \/ SetFormat("TRY")
  \/ FmtSetFormat("ACTIVE")
  \/ FmtSetFlip

\* a mono or a colour sensor after probe, on a bus that acknowledges every
\* transfer
InitFmt == \E isMono \in BOOLEAN : InitDevice(isMono, MaxFaults)

SpecFmt == InitFmt /\ [][NextFmt]_vars

(* ---------------------------------------------------------------------- *)
(* Analogue gain over every mode                                           *)
(* ---------------------------------------------------------------------- *)
\* gain requests: the ends of the control's range and the values around the
\* HCG threshold and around the floor of the HCG stage
GainSamples ==
  { IMX586_ANA_GAIN_MIN, IMX586_ANA_GAIN_HCG_THRESHOLD - 1, IMX586_ANA_GAIN_HCG_THRESHOLD,
    IMX586_ANA_GAIN_HCG_LEVEL + IMX586_ANA_GAIN_HCG_MIN,
    IMX586_ANA_GAIN_HCG_LEVEL + IMX586_ANA_GAIN_HCG_MIN + 1, IMX586_ANA_GAIN_MAX }

GainSetFormat ==
  /\ \E code \in FormatReqs(mono), xfer \in XferFuncs, size \in Sizes :
       \E r \in SetFormatRuns("ACTIVE", code, xfer, size) : Commit(r)
  /\ UNCHANGED << touched, pc, holder >>

GainSetGain ==
  /\ \E v \in GainSamples : \E r \in SetControlRuns("gain", v) : Commit(r)
  /\ UNCHANGED << touched, pc, holder >>

NextGain ==
  \/ GainSetFormat
  \/ GainSetGain
  \/ StartStream
  \/ StopStream

SpecGain == InitFmt /\ [][NextGain]_vars

(* ---------------------------------------------------------------------- *)
(* Format negotiation on a device that streams                             *)
(* ---------------------------------------------------------------------- *)
NextTry ==
  \/ SetFormat("TRY")
  \/ GainSetFormat
  \/ StartStream
  \/ StopStream

SpecTry == InitFmt /\ [][NextTry]_vars

(* ---------------------------------------------------------------------- *)
(* Blanking and exposure over every mode                                   *)
(* ---------------------------------------------------------------------- *)
\* requested sizes that select each entry of a two-entry mode list
ExpSizes == { << 3840, 2160 >>, << 1920, 1080 >> }

\* blanking and exposure requests: the shortest frame and a long one, a
\* short line and the longest one, an exposure above every range (the
\* products of the frame lengths and line lengths they lead to stay below
\* 2^31)
ExpReqs(name) ==
  CASE name = "vblank" -> { 0, 100000 }
    [] name = "hblank" -> { 200, 65535 }
    [] OTHER -> { 200000 }

ExpSetFormat ==
  /\ \E code \in FormatReqs(mono), xfer \in XferFuncs, size \in ExpSizes :
       \E r \in SetFormatRuns("ACTIVE", code, xfer, size) : Commit(r)
  /\ UNCHANGED << touched, pc, holder >>

ExpSetBlanking ==
  /\ \E name \in { "vblank", "hblank" } : \E v \in ExpReqs(name) :
       \E r \in SetControlRuns(name, v) : Commit(r)
  /\ UNCHANGED << touched, pc, holder >>

ExpSetExposure ==
  /\ \E v \in ExpReqs("exposure") : \E r \in SetControlRuns("exposure", v) : Commit(r)
  /\ UNCHANGED << touched, pc, holder >>

NextExp ==
  \/ ExpSetFormat
  \/ ExpSetBlanking
  \/ ExpSetExposure
  \/ StartStream

SpecExp == InitFmt /\ [][NextExp]_vars

\* blanking and exposure changes of a colour device in its default mode, on
\* a bus on which transfers may fail
NextBus ==
  \/ ExpSetBlanking
  \/ ExpSetExposure
  \/ StartStream
  \/ StopStream

SpecBus == Init /\ [][NextBus]_vars

(* ---------------------------------------------------------------------- *)
(* Every taker of the device mutex                                         *)
(* ---------------------------------------------------------------------- *)
\* the operations that take imx586->mutex on entry
MutexEntries == { "set_fmt", "get_fmt", "set_stream", "get_selection", "open" }

\* the codes of the set_format requests: those of the callers and one the
\* capability tables do not hold
MutexCodes == FormatReqs(mono) \cup { MEDIA_BUS_FMT_RGB888_1X24 }

\* a task that died in a kernel oops
Oops == "oops"

MutexEnter == \E t \in Threads, entry \in MutexEntries : mutex_lock(t, entry)

\* imx586_set_pad_format from mutex_lock to mutex_unlock; a call that ends in
\* an oops kills its task inside the critical section, before the unlock
MutexSetFormat ==
  \E t \in Threads :
    /\ pc[t] = "set_fmt"
    /\ \E which \in { "TRY", "ACTIVE" }, code \in MutexCodes, xfer \in XferFuncs,
          size \in Sizes :
         \E r \in SetFormatRuns(which, code, xfer, size) :
           /\ Commit(r)
           /\ IF r.ret = "OOPS"
              THEN pc' = [pc EXCEPT ![t] = Oops] /\ UNCHANGED holder
              ELSE mutex_unlock(t)
    /\ UNCHANGED touched

MutexGetFormat ==
  \E t \in Threads :
    /\ pc[t] = "get_fmt"
    /\ \E which \in { "TRY", "ACTIVE" } :
         Commit(IF which = "TRY"
                THEN [St EXCEPT !.try_fmt = imx586_get_pad_format(St, "TRY")]
                ELSE St)
    /\ mutex_unlock(t)
    /\ UNCHANGED touched

\* the V4L2_SEL_TGT_CROP case, the only one that takes the mutex
MutexGetSelection ==
  \E t \in Threads :
    /\ pc[t] = "get_selection"
    /\ Commit(St)
    /\ mutex_unlock(t)
    /\ UNCHANGED touched

\* imx586_open: the try format of the image pad is set to the size of the
\* first 12-bit mode and to the resolved default code
imx586_open(d) ==
  [d EXCEPT !.try_fmt =
     [@ EXCEPT !.width = supported_modes_12bit[1].width,
               !.height = supported_modes_12bit[1].height,
               !.code = imx586_get_format_code(d.mono, default_fmt_code(d.mono),
                                               default_fmt_code(d.mono))]]

MutexOpen ==
  \E t \in Threads :
    /\ pc[t] = "open"
    /\ Commit(imx586_open(St))
    /\ mutex_unlock(t)
    /\ UNCHANGED touched

NextMutex ==
  \/ MutexEnter
  \/ MutexSetFormat
  \/ MutexGetFormat
  \/ MutexGetSelection
  \/ MutexOpen
  \/ RunSetStream

SpecMutex == Init /\ [][NextMutex]_vars

(* ---------------------------------------------------------------------- *)
(* Registers and logs                                                      *)
(* ---------------------------------------------------------------------- *)
\* the register a control's case of imx586_set_ctrl writes last
CtrlReg(name) ==
  CASE name = "exposure" -> "SHR"
    [] name = "gain" -> "FDG_SEL0"
    [] name = "vblank" -> "VMAX"
    [] name = "hblank" -> "HMAX"
    [] name = "hflip" -> "WINMODEH"
    [] name = "vflip" -> "WINMODEV"

\* the value that case sends to the register for the control values, the
\* timing and the mode of d
CtrlRegValue(d, name) ==
  CASE name = "exposure" ->
         calculate_shr(d.ctrl["exposure"].val, d.HMAX, d.VMAX, SVR, SHR_OFFSET) % U16
    [] name = "gain" ->
         IF gain_select(d.mode, d.ctrl["gain"].val)[2] THEN 1 ELSE 0
    [] name = "vblank" -> (d.mode.height + d.ctrl["vblank"].val) % 16777216
    [] name = "hblank" -> hblank_to_hmax(d.mode, d.ctrl["hblank"].val) % U16
    [] name = "hflip" -> d.ctrl["hflip"].val
    [] name = "vflip" -> d.ctrl["vflip"].val

\* the value the gain case sends to the gain register
GainRegValue(d) == gain_select(d.mode, d.ctrl["gain"].val)[1] % U16

\* the registers of the transfers of a log, in order
RegSeq(log) == [k \in 1..Len(log) |-> log[k].reg]

\* the transfers of a log to register reg
Transfers(log, reg) == { k \in 1..Len(log) : log[k].reg = reg }

\* TRUE iff the last transfer of log sets mode-select to streaming
EndsStreaming(log) ==
  /\ Len(log) > 0
  /\ log[Len(log)].reg = "MODE_SELECT"
  /\ log[Len(log)].val = IMX586_MODE_STREAMING

\* steps (1)-(5) of the start sequence for a device found in state d
StartPrefix(d) ==
  (IF d.common_regs_written THEN << >> ELSE << "COMMON_LIST", "BLKLEVEL" >>)
  \o << "MODE_LIST", "CCMP1_EXP", "ACMP1_EXP", "CCMP2_EXP", "ACMP2_EXP" >>
  \o (IF d.mode.hdr THEN << "EXP_TH_H", "EXP_TH_L", "EXP_BK" >> ELSE << >>)
  \o << "DIGITAL_CLAMP" >>

\* registers written by the write paths of the controls
ControlRegs ==
  { "SHR", "ANALOG_GAIN", "FDG_SEL0", "REGHOLD", "VMAX", "HMAX", "WINMODEH", "WINMODEV" }

\* the order of the start sequence in a log issued from state d
StartOrder(d, log) ==
  LET n == Len(StartPrefix(d))
  IN /\ Len(log) > n + 1
     /\ SubSeq(RegSeq(log), 1, n) = StartPrefix(d)
     /\ \A k \in Transfers(log, "MODE_LIST") : log[k].val = d.mode.id
     /\ \A k \in (n + 1)..(Len(log) - 1) : log[k].reg \in ControlRegs
     /\ \A name \in Writable :
          \E k \in (n + 1)..(Len(log) - 1) : log[k].reg = CtrlReg(name)
     /\ \E k \in (n + 1)..(Len(log) - 1) : log[k].reg = "ANALOG_GAIN"
     /\ EndsStreaming(log)

(* ---------------------------------------------------------------------- *)
(* Properties                                                              *)
(* ---------------------------------------------------------------------- *)
\* C1: in a start request from Standby, a register write that fails at any
\* step of the start sequence aborts the transition: the failing write is
\* the last one issued, the streaming flag stays false and the failure is
\* returned.
C1_StartAbortsOnAnyWriteFailure ==
  (~streaming /\ ~suspended) =>
    \A r \in StartOutcomes :
      Faulty(r.wlog) => /\ ~r.wlog[Len(r.wlog)].ok
                        /\ ~r.streaming
                        /\ r.ret # "OK"

\* C1: a state in which a start whose black-level write fails goes on to
\* stream and returns success
C1_IgnoredFailure ==
  /\ ~streaming /\ ~suspended
  /\ \E r \in StartOutcomes :
       /\ \E k \in Transfers(r.wlog, "BLKLEVEL") : ~r.wlog[k].ok
       /\ EndsStreaming(r.wlog)
       /\ r.streaming
       /\ r.ret = "OK"

\* C2: every successful start, from set_stream or from resume, issues its
\* register writes in the fixed order: common list and black level only if
\* the common registers were not yet written, the mode's list, the four
\* compression values, the HDR registers if the mode is HDR, the digital
\* clamp, every control, and mode-select = streaming last.
C2_StartOrder ==
  /\ (~streaming /\ ~suspended) =>
       \A r \in StartOutcomes :
         (r.ret = "OK" /\ r.streaming) => StartOrder(St, r.wlog)
  /\ (streaming /\ suspended) =>
       \A r \in ResumeOutcomes :
         r.ret = "OK" => StartOrder(St, r.wlog)

\* C2: a stopped HDR device whose common registers are written and whose
\* next start succeeds
C2_Witness ==
  /\ ~streaming /\ ~suspended /\ common_regs_written /\ mode.hdr
  /\ \E r \in StartOutcomes : r.ret = "OK" /\ r.streaming /\ ~Faulty(r.wlog)

\* C3: set_stream(enable) with enable equal to the streaming flag returns
\* success, issues no write, takes no power reference and changes nothing.
C3_SameStateIsNoop ==
  /\ streaming => \A r \in StartOutcomes : r = St
  /\ ~streaming => \A r \in StopOutcomes : r = St

\* C3: a streaming device that is asked to start again
C3_Witness ==
  /\ streaming /\ ~suspended /\ usage = 1
  /\ imx586_set_stream(St, {}, 0, TRUE, FALSE) = St

\* C4: a stop request from Streaming ends with the streaming flag false and
\* returns success whether or not the mode-select write succeeded, and a
\* later start request runs the start sequence.
C4_StopAlwaysStops ==
  (streaming /\ ~suspended) =>
    \A r \in StopOutcomes :
      /\ ~r.streaming
      /\ r.ret = "OK"
      /\ Transfers(r.wlog, "MODE_SELECT") # {}
      /\ ~stream_is_noop(r, TRUE)
      /\ \A G \in UninitU32 :
           \E r2 \in { NominalStart(r, G) } :
             r2.streaming /\ EndsStreaming(r2.wlog)

\* C4: a streaming device whose stop request sees the mode-select write fail
C4_Witness ==
  /\ streaming /\ ~suspended
  /\ \E r \in StopOutcomes : Faulty(r.wlog) /\ ~r.streaming

\* C5: the common-registers-written flag is false outside the power bracket
\* and after every power_off, true only if the common list was written in
\* full since power_on; a start that finds it false writes the common list
\* first, before the mode list, and a start that finds it true does not
\* write the common list.
C5_CommonRegsFlag ==
  /\ ~powered => ~common_regs_written
  /\ ~imx586_power_off(St).common_regs_written
  /\ common_regs_written => hw["COMMON_LIST"] = 1
  /\ (~streaming /\ ~suspended) =>
       \A r \in StartOutcomes :
         /\ r.common_regs_written =>
              (common_regs_written \/
               \E k \in Transfers(r.wlog, "COMMON_LIST") : r.wlog[k].ok)
         /\ (r.ret = "OK" /\ ~common_regs_written) =>
              /\ r.wlog[1].reg = "COMMON_LIST"
              /\ r.wlog[1].ok
              /\ \A k \in Transfers(r.wlog, "MODE_LIST") : k > 1
         /\ common_regs_written => Transfers(r.wlog, "COMMON_LIST") = {}

\* C5: a device stopped and still powered, with the common registers written
C5_Witness ==
  /\ powered /\ ~streaming /\ usage = 0 /\ common_regs_written
  /\ \E r \in StartOutcomes : r.streaming /\ Transfers(r.wlog, "COMMON_LIST") = {}

\* C6: no operation issues a register transfer while the device is outside
\* the power_on / power_off bracket.
C6_NoAccessOutsidePowerBracket ==
  LET InBracket(r) == \A k \in 1..Len(r.wlog) : r.wlog[k].pw
  IN /\ ~suspended =>
          /\ \A name \in Writable : \A r \in SetControlOutcomes(name) : InBracket(r)
          /\ \A r \in SetFormatOutcomes("ACTIVE") : InBracket(r)
          /\ \A r \in StartOutcomes : InBracket(r)
          /\ \A r \in StopOutcomes : InBracket(r)
          /\ \A r \in SuspendOutcomes : InBracket(r)
     /\ suspended => \A r \in ResumeOutcomes : InBracket(r)

\* C6: a device outside the bracket whose gain control was set
C6_Witness ==
  /\ ~powered /\ ~suspended
  /\ ctrl["gain"].val # IMX586_ANA_GAIN_DEFAULT

\* C7: a set_control on a device that is not powered for streaming returns
\* success without a register write and keeps the value, and the next
\* successful start sends that value through the control's write path
\* before mode-select = streaming.
C7_LazyControlApply ==
  (~pm_runtime_get_if_in_use(St) /\ ~streaming /\ ~suspended) =>
    \A name \in Writable : \A r \in SetControlOutcomes(name) :
      /\ r.ret = "OK"
      /\ r.wlog = << >>
      /\ \E v \in CtrlReqs(name) : r.ctrl[name].val = validate_new(ctrl[name], v)
      /\ \A G \in UninitU32 :
           \E r2 \in { NominalStart(r, G) } :
             (r2.ret = "OK" /\ r2.streaming) =>
               /\ r2.ctrl[name].val = r.ctrl[name].val
               /\ \E k \in Transfers(r2.wlog, CtrlReg(name)) :
                    /\ k < Len(r2.wlog)
                    /\ r2.wlog[k].val = CtrlRegValue(r2, name)
               /\ name = "gain" =>
                    \E k \in Transfers(r2.wlog, "ANALOG_GAIN") :
                      /\ k < Len(r2.wlog)
                      /\ r2.wlog[k].val = GainRegValue(r2)
               /\ EndsStreaming(r2.wlog)

\* C7: a device stopped after a vertical-blanking change failed on the bus,
\* on which an exposure is set and kept, and changed by the next start
C7_RetainedValueReplaced ==
  /\ ~pm_runtime_get_if_in_use(St) /\ ~streaming /\ ~suspended
  /\ VMAX # mode.height + ctrl["vblank"].val
  /\ \E r \in SetControlOutcomes("exposure") :
       /\ r.ret = "OK"
       /\ r.ctrl["exposure"].val # ctrl["exposure"].val
       /\ \E G \in UninitU32 : \E r2 \in { NominalStart(r, G) } :
            /\ r2.ret = "OK" /\ r2.streaming
            /\ r2.ctrl["exposure"].val # r.ctrl["exposure"].val

\* C8: at the end of every successful start the registers for integration
\* hold, gain and stage, frame length, line length and both flips hold the
\* values derived from the control values and the mode.
C8_RegistersMatchControls ==
  (~streaming /\ ~suspended) =>
    \A r \in StartOutcomes :
      (r.ret = "OK" /\ r.streaming) =>
        /\ \A name \in Writable : r.hw[CtrlReg(name)] = CtrlRegValue(r, name)
        /\ r.hw["ANALOG_GAIN"] = GainRegValue(r)

\* C8: a state in which a start returns success although the write of the
\* gain register failed, the register keeping what it held
C8_StaleGain ==
  /\ ~streaming /\ ~suspended
  /\ \E r \in StartOutcomes :
       /\ r.ret = "OK" /\ r.streaming
       /\ \E k \in Transfers(r.wlog, "ANALOG_GAIN") : ~r.wlog[k].ok
       /\ r.hw["ANALOG_GAIN"] # GainRegValue(r)

\* C9: while the streaming flag is true every attempt to change the
\* horizontal or the vertical flip is rejected, the value and the registers
\* staying as they are.
C9_FlipsFrozenWhileStreaming ==
  (streaming /\ ~suspended) =>
    /\ \A name \in { "hflip", "vflip" } : \A v \in FlipReqs :
         v # ctrl[name].val =>
           \A r \in SetControlRuns(name, v) :
             /\ r.ret # "OK"
             /\ r.ctrl[name].val = ctrl[name].val
             /\ r.hw = hw
             /\ r.wlog = << >>
    /\ \A r \in StopOutcomes :
         ~r.ctrl["hflip"].grabbed /\ ~r.ctrl["vflip"].grabbed

\* C9: a streaming device on which a set_control changes the horizontal flip
\* and writes its register
C9_HflipAccepted ==
  /\ streaming /\ ~suspended
  /\ \E r \in SetControlOutcomes("hflip") :
       /\ r.ret = "OK"
       /\ r.ctrl["hflip"].val # ctrl["hflip"].val
       /\ Transfers(r.wlog, "WINMODEH") # {}

\* C10: under any interleaving at most one caller is inside set_format,
\* set_control or set_stream, and the one inside holds the device mutex.
C10_MutualExclusion ==
  /\ \A t \in Threads : pc[t] # "idle" => holder[DeviceMutex] = t
  /\ \A t1, t2 \in Threads : (pc[t1] # "idle" /\ pc[t2] # "idle") => t1 = t2

\* C10: a caller inside set_control on a streaming device while another
\* caller is outside
C10_Witness ==
  \E t1, t2 \in Threads :
    /\ pc[t1] = "set_ctrl" /\ pc[t2] = "idle" /\ streaming
    /\ holder[DeviceMutex] = t1

\* C11: suspend and resume are serialized against the device lock: a step of
\* imx586_suspend or imx586_resume is taken only while no caller of
\* set_format, set_control or set_stream holds the device mutex.
C11_PmSerialized ==
  [][(suspended' # suspended) => \A t \in Threads : holder[DeviceMutex] # t]_vars

\* C11: a caller inside set_stream holding the device mutex of a streaming
\* device, on which a suspend reads the streaming flag and writes mode-select
C11_SuspendUnderLock ==
  /\ ~suspended /\ streaming
  /\ \E t \in Threads : pc[t] = "set_stream" /\ holder[DeviceMutex] = t
  /\ \E r \in SuspendOutcomes : Transfers(r.wlog, "MODE_SELECT") # {}

C13_UnsupportedCodeRejected ==
  \A which \in { "TRY", "ACTIVE" } :
    \A code \in AnyCodes \ CapabilityCodes(mono) :
      /\ format_code_index(IF mono THEN mono_codes ELSE codes, code)
           <= Len(IF mono THEN mono_codes ELSE codes)
      /\ \A xfer \in Hints, size \in FmtSizes :
           \A r \in SetFormatRuns(which, code, xfer, size) :
             /\ r.ret = "EINVAL"
             /\ [r EXCEPT !.ret = "OK"] = St

\* C13: a device on which a set_format with a code outside its table either
\* ends in an oops or returns success with another mode committed
C13_ForeignCodeAccepted ==
  \E code \in AnyCodes \ CapabilityCodes(mono) : \E xfer \in Hints, size \in FmtSizes :
    /\ format_code_index(IF mono THEN mono_codes ELSE codes, code)
         > Len(IF mono THEN mono_codes ELSE codes)
    /\ \E r \in SetFormatRuns("ACTIVE", code, xfer, size) : r.ret = "OOPS"
    /\ \E r \in SetFormatRuns("ACTIVE", code, xfer, size) :
         r.ret = "OK" /\ r.mode # mode /\ r.fmt_code \notin { code }

\* the member of the flip quadruplet of codes[i] that the table's layout (no
\* flip, h flip, v flip, h&v flips) assigns to the flips h and v
flip_variant(i, h, v) == codes[((i - 1) \div 4) * 4 + 1 + h + 2 * v]

\* C14: on a colour device, for every code of the capability table, the
\* resolver and a set_format built on it answer with the member of the
\* code's flip quadruplet that the current h flip and v flip select, also
\* when the caller proposed another member of that quadruplet.
C14_FlipSelectsCode ==
  ~mono =>
    \A i \in 1..Len(codes) :
      /\ imx586_get_format_code(mono, codes[i], codes[i])
           = flip_variant(i, ctrl["hflip"].val, ctrl["vflip"].val)
      /\ \A xfer \in XferFuncs, size \in Sizes :
           \A r \in SetFormatRuns("TRY", codes[i], xfer, size) :
             r.try_fmt.code = flip_variant(i, ctrl["hflip"].val, ctrl["vflip"].val)

\* C14: a colour device with the h flip set on which the resolver still
\* answers a proposed no-flip code with that same code
C14_FlipIgnored ==
  /\ ~mono
  /\ ctrl["hflip"].val = 1
  /\ \E i \in 1..Len(codes) :
       /\ flip_variant(i, 0, 0) = codes[i]
       /\ imx586_get_format_code(mono, codes[i], codes[i]) = codes[i]
       /\ flip_variant(i, ctrl["hflip"].val, ctrl["vflip"].val) # codes[i]

\* the partition of the catalog a code and a transfer function stand for
InPartition(m, code, xfer) ==
  IF Is16bit(code) THEN m.hdr /\ m.linear
  ELSE IF xfer = V4L2_XFER_FUNC_GRADATION_COMPRESSION THEN ~m.linear
  ELSE m.linear /\ ~m.hdr

\* C15: for every code of the device and every transfer function, the mode
\* list of the pair and the mode a set_format leaves selected are non-linear
\* for a 12-bit code with gradation compression, linear and not HDR for a
\* 12-bit code with any other transfer function, and HDR and linear for a
\* 16-bit code whatever the transfer function.
C15_ModePartition ==
  \A code \in CapabilityCodes(mono), xfer \in Hints :
    /\ Len(get_mode_table(mono, code, xfer)) > 0
    /\ \A k \in 1..Len(get_mode_table(mono, code, xfer)) :
         InPartition(get_mode_table(mono, code, xfer)[k], code, xfer)
    /\ \A size \in FmtSizes :
         \A r \in SetFormatRuns("ACTIVE", code, xfer, size) :
           r.ret = "OK" /\ InPartition(r.mode, code, xfer)

\* C15: a device whose selected mode is the non-linear one under a 12-bit
\* code, and from which a 16-bit request with gradation compression leads
\* to an HDR linear mode
C15_Witness ==
  /\ ~mode.linear
  /\ fmt_code \in CapabilityCodes(mono) /\ ~Is16bit(fmt_code)
  /\ \E code \in CapabilityCodes(mono) : \E size \in FmtSizes :
       /\ Is16bit(code)
       /\ \E r \in SetFormatRuns("ACTIVE", code, V4L2_XFER_FUNC_GRADATION_COMPRESSION, size) :
            r.mode # mode /\ r.mode.hdr /\ r.mode.linear

\* the distance v4l2_find_nearest_size measures between a mode and a size
SizeError(m, size) == Abs(m.width - size[1]) + Abs(m.height - size[2])

\* TRUE iff m is an entry of list nearest to size and, among the entries as
\* near, the first one (firstWins) or the last one (~firstWins)
NearestOf(list, m, size, firstWins) ==
  \E i \in 1..Len(list) :
    /\ list[i] = m
    /\ \A k \in 1..Len(list) :
         /\ SizeError(m, size) <= SizeError(list[k], size)
         /\ SizeError(list[k], size) = SizeError(m, size) =>
              IF firstWins THEN i <= k ELSE k <= i

\* the two 4K requests of a colour device with a 12-bit code: the default
\* transfer function selects the 3856x2180 linear mode, gradation
\* compression the 3856x2180 non-linear HDR mode whose default VMAX is twice
\* that of the linear one
FourKScenarios(code, xfer, size, m) ==
  (~mono /\ ~Is16bit(code) /\ size = << 3840, 2160 >>) =>
    /\ xfer = V4L2_XFER_FUNC_DEFAULT =>
         m.width = 3856 /\ m.height = 2180 /\ ~m.hdr /\ m.linear
    /\ xfer = V4L2_XFER_FUNC_GRADATION_COMPRESSION =>
         /\ m.width = 3856 /\ m.height = 2180 /\ m.hdr /\ ~m.linear
         /\ \E k \in 1..Len(supported_modes_12bit) :
              /\ supported_modes_12bit[k].width = 3856
              /\ supported_modes_12bit[k].height = 2180
              /\ m.default_VMAX = 2 * supported_modes_12bit[k].default_VMAX

ResolvedMode(code, xfer, size) ==
  v4l2_find_nearest_size(get_mode_table(mono, imx586_get_format_code(mono, code, code), xfer),
                         size[1], size[2])

\* C17: a set_format on the active format whose resolved mode is the
\* current mode returns success and leaves the device as it was: mode,
\* format code, HMAX, VMAX, every control's value and range and every other
\* field are unchanged and no bus transfer is issued.
C17_SameModeNoOp ==
  \A code \in CapabilityCodes(mono), xfer \in XferFuncs, size \in FmtSizes :
    ResolvedMode(code, xfer, size) = mode =>
      \A r \in SetFormatRuns("ACTIVE", code, xfer, size) :
        /\ r.wlog = << >>
        /\ r.ret = "OK"
        /\ r = St

\* C17: a streaming device whose frame length was changed since its mode
\* was committed, asked for its current mode under another format code
C17_Witness ==
  /\ streaming
  /\ VMAX # mode.default_VMAX
  /\ ctrl["vblank"].val # mode.default_VMAX - mode.height
  /\ \E code \in CapabilityCodes(mono), xfer \in XferFuncs, size \in FmtSizes :
       /\ code # fmt_code
       /\ ResolvedMode(code, xfer, size) = mode
       /\ \E r \in SetFormatRuns("ACTIVE", code, xfer, size) : r = St

\* integration holds of the device's frame length: the ends of
\* [min_SHR, min(0xFFFF, VMAX - 4)] and their neighbours
ShrSamples ==
  { shr \in { mode.min_SHR, mode.min_SHR + 1, Min(65535, VMAX - 4) - 1,
              Min(65535, VMAX - 4) } :
      mode.min_SHR <= shr /\ shr <= Min(65535, VMAX - 4) }

\* the integration hold calculate_shr derives from the exposure that
\* calculate_v4l2_cid_exposure reports for shr, at the device's timing
ShrRoundTrip(shr) ==
  calculate_shr(calculate_v4l2_cid_exposure(HMAX, VMAX, shr, SVR, SHR_OFFSET),
                HMAX, VMAX, SVR, SHR_OFFSET)

\* C18: at every line length and frame length the device reaches, for every
\* integration hold in [min_SHR, min(0xFFFF, VMAX - 4)], calculate_shr of
\* the exposure calculate_v4l2_cid_exposure returns for the hold is the hold.
C18_ShrRoundTrip ==
  /\ mode.min_VMAX <= VMAX /\ VMAX <= IMX586_VMAX_MAX
  /\ \A shr \in ShrSamples : ShrRoundTrip(shr) = shr

\* C18: a streaming device whose SHR register holds the value derived from
\* the exposure control, a valid hold whose round trip is another hold
C18_ShrOffByOne ==
  /\ streaming
  /\ hw.SHR = calculate_shr(ctrl["exposure"].val, HMAX, VMAX, SVR, SHR_OFFSET)
  /\ mode.min_SHR <= hw.SHR /\ hw.SHR <= Min(65535, VMAX - 4)
  /\ ShrRoundTrip(hw.SHR) = hw.SHR + 1
  /\ calculate_v4l2_cid_exposure(HMAX, VMAX, hw.SHR, SVR, SHR_OFFSET)
       = ctrl["exposure"].val - 1

\* line lengths and frame lengths at the ends of what a mode allows (the
\* line length as far as the product with the longest frame stays below 2^31)
MaxHmaxSample == 2047
TimingSamples(m) ==
  { << h, v >> : h \in { m.min_HMAX, MaxHmaxSample },
                 v \in { m.min_VMAX, m.min_VMAX + 1, IMX586_VMAX_MAX } }

\* <<min_exposure, max_exposure>> as derived from the device's timing
DerivedRange ==
  calculate_min_max_v4l2_cid_exposure(HMAX, VMAX, mode.min_SHR, SVR, SHR_OFFSET)

\* C19: after every blanking change and every mode commit the exposure
\* range derived from the device's line length, frame length and mode has
\* min_exposure <= max_exposure, so has the range the exposure control
\* publishes, and so has the range derived for every mode of the catalog at
\* the ends of its timing.
C19_ExposureRangeOrdered ==
  /\ DerivedRange[1] <= DerivedRange[2]
  /\ ctrl["exposure"].min <= ctrl["exposure"].max
  /\ \A m \in AllModes : \A t \in TimingSamples(m) :
       calculate_min_max_v4l2_cid_exposure(t[1], t[2], m.min_SHR, SVR, SHR_OFFSET)[1]
         <= calculate_min_max_v4l2_cid_exposure(t[1], t[2], m.min_SHR, SVR, SHR_OFFSET)[2]

\* C19: a device in the 1928x1090 16-bit mode whose line length and frame
\* length were both changed since the mode was committed
C19_Witness ==
  /\ mode = supported_modes_16bit[1]
  /\ HMAX # mode.default_HMAX
  /\ VMAX # mode.default_VMAX
  /\ ctrl["exposure"].min = DerivedRange[1]
  /\ ctrl["exposure"].max = DerivedRange[2]
  /\ DerivedRange[1] < DerivedRange[2]

\* <<min_exposure, max_exposure>> derived from the line length and the frame
\* length that the blanking controls of r stand for
RangeOfBlanking(r) ==
  calculate_min_max_v4l2_cid_exposure(
    hblank_to_hmax(r.mode, r.ctrl["hblank"].val) % U16,
    r.mode.height + r.ctrl["vblank"].val, r.mode.min_SHR, SVR, SHR_OFFSET)

\* C20: after every successful change of the vertical or the horizontal
\* blanking, powered or not, the range the exposure control publishes is the
\* range derived from the new frame length and line length, which is the
\* range derived from the stored VMAX and HMAX, and the exposure value lies
\* inside it.
C20_BlankingRederivesExposure ==
  \A name \in { "vblank", "hblank" } : \A v \in ExpReqs(name) :
    \A r \in SetControlRuns(name, v) :
      r.ret = "OK" =>
        /\ r.ctrl["exposure"].min = RangeOfBlanking(r)[1]
        /\ r.ctrl["exposure"].max = RangeOfBlanking(r)[2]
        /\ RangeOfBlanking(r) =
             calculate_min_max_v4l2_cid_exposure(r.HMAX, r.VMAX, r.mode.min_SHR,
                                                 SVR, SHR_OFFSET)
        /\ r.ctrl["exposure"].min <= r.ctrl["exposure"].val
        /\ r.ctrl["exposure"].val <= r.ctrl["exposure"].max

\* C20: a streaming device whose exposure value lies above the range its
\* exposure control publishes, the range being the one derived from VMAX
C20_ExposureOutsideRange ==
  /\ streaming
  /\ ctrl["exposure"].max = DerivedRange[2]
  /\ VMAX = mode.height + ctrl["vblank"].val
  /\ ctrl["exposure"].val > ctrl["exposure"].max

\* TRUE iff the exposure value of r lies in the range derived from the
\* timing and the mode of r
ExposureInDerivedRange(r) ==
  Bind(calculate_min_max_v4l2_cid_exposure(r.HMAX, r.VMAX, r.mode.min_SHR, SVR,
                                           SHR_OFFSET), LAMBDA mm :
    mm[1] <= r.ctrl["exposure"].val /\ r.ctrl["exposure"].val <= mm[2])

\* C21: in every state VMAX >= mode.height and the committed exposure lies
\* in the range derived from VMAX, HMAX and the mode, so does the exposure
\* every set_control of the exposure commits, and the value a change of the
\* vertical blanking clamps into the new range (and hands on as the range's
\* default) is the configured exposure.
C21_ExposureDefined ==
  /\ VMAX >= mode.height
  /\ ExposureInDerivedRange(St)
  /\ \A v \in ExpReqs("exposure") : \A r \in SetControlRuns("exposure", v) :
       ExposureInDerivedRange(r)
  /\ \A v \in ExpReqs("vblank") : \A r \in SetControlRuns("vblank", v) :
       /\ r.VMAX >= r.mode.height
       /\ r.ctrl["exposure"].def =
            Clamp(ctrl["exposure"].val, r.ctrl["exposure"].min, r.ctrl["exposure"].max)

\* C21: a device whose vertical blanking was changed and whose exposure
\* control has for default an end of its range that is not the configured
\* exposure
C21_DefaultFromGarbage ==
  /\ VMAX # mode.default_VMAX
  /\ ExposureInDerivedRange(St)
  /\ ctrl["exposure"].def \in { ctrl["exposure"].min, ctrl["exposure"].max }
  /\ ctrl["exposure"].def # ctrl["exposure"].val

\* the least vertical blanking of the device's mode
MinVblank == mode.min_VMAX - mode.height

\* <<min_exposure, max_exposure>> of the shortest frame of the device's mode
MinFrameRange ==
  calculate_min_max_v4l2_cid_exposure(HMAX, mode.min_VMAX, mode.min_SHR, SVR, SHR_OFFSET)

\* TRUE iff r is the device with the shortest frame of its mode in force
AtMinFrame(r) ==
  /\ r.ret = "OK"
  /\ r.VMAX = mode.min_VMAX
  /\ r.ctrl["vblank"].val = MinVblank
  /\ r.ctrl["exposure"].min = MinFrameRange[1]
  /\ r.ctrl["exposure"].max = MinFrameRange[2]

GainTransfers(g, hcg) ==
  << << "REGHOLD", 1 >>, << "ANALOG_GAIN", g >>,
     << "FDG_SEL0", IF hcg THEN 1 ELSE 0 >>, << "REGHOLD", 0 >> >>

\* the <<register, value>> pairs of a transfer log
RegVals(log) == [k \in 1..Len(log) |-> << log[k].reg, log[k].val >>]

\* C23: for every requested gain in [0, 240] the selection is a function of
\* the gain and mode.hdr alone: LCG with the gain as requested in an HDR
\* mode, HCG with max(gain - 51, 34) from 80 on in the other modes, LCG with
\* the gain as requested below 80; and a powered set_control of the gain
\* writes that register gain and that stage whatever the registers held.
C23_GainSelection ==
  /\ \A g \in IMX586_ANA_GAIN_MIN..IMX586_ANA_GAIN_MAX :
       gain_select(mode, g) =
         IF mode.hdr THEN << g, FALSE >>
         ELSE IF g >= 80 THEN << Max(g - 51, 34), TRUE >>
         ELSE << g, FALSE >>
  /\ IMX586_ANA_GAIN_MIN = 0 /\ IMX586_ANA_GAIN_MAX = 240
  /\ \A g \in GainSamples : \A r \in SetControlRuns("gain", g) :
       (pm_runtime_get_if_in_use(St) /\ g # ctrl["gain"].val) =>
         /\ r.ret = "OK"
         /\ RegVals(r.wlog) = GainTransfers(gain_select(mode, g)[1], gain_select(mode, g)[2])
         /\ r.hw.ANALOG_GAIN = gain_select(mode, g)[1]
         /\ r.hw.FDG_SEL0 = (IF gain_select(mode, g)[2] THEN 1 ELSE 0)

\* C23: a streaming device in a mode without HDR whose stage register
\* selects HCG, asked for a gain below the threshold and for one just above
C23_Witness ==
  /\ streaming /\ ~mode.hdr
  /\ hw.FDG_SEL0 = 1
  /\ \E r \in SetControlRuns("gain", 79) : r.hw.FDG_SEL0 = 0 /\ r.hw.ANALOG_GAIN = 79
  /\ \E r \in SetControlRuns("gain", 80) : r.hw.FDG_SEL0 = 1 /\ r.hw.ANALOG_GAIN = 34

\* the requested gains after which the selected stage changes
StageChanges(m) ==
  { g \in IMX586_ANA_GAIN_MIN..(IMX586_ANA_GAIN_MAX - 1) :
      gain_select(m, g)[2] # gain_select(m, g + 1)[2] }

\* C24: over the gain range [0, 240] the register gain never decreases from
\* one requested gain to the next within a stage; in a mode without HDR the
\* stage is LCG below the HCG threshold and HCG from it on, one change; in
\* an HDR mode the stage is LCG throughout.
C24_GainMonotonic ==
  /\ \A g \in IMX586_ANA_GAIN_MIN..(IMX586_ANA_GAIN_MAX - 1) :
       gain_select(mode, g)[2] = gain_select(mode, g + 1)[2] =>
         gain_select(mode, g)[1] <= gain_select(mode, g + 1)[1]
  /\ \A g \in IMX586_ANA_GAIN_MIN..IMX586_ANA_GAIN_MAX :
       gain_select(mode, g)[2] = (~mode.hdr /\ g >= IMX586_ANA_GAIN_HCG_THRESHOLD)
  /\ StageChanges(mode) =
       IF mode.hdr THEN {} ELSE { IMX586_ANA_GAIN_HCG_THRESHOLD - 1 }
  /\ IMX586_ANA_GAIN_MIN < IMX586_ANA_GAIN_HCG_THRESHOLD
  /\ IMX586_ANA_GAIN_HCG_THRESHOLD <= IMX586_ANA_GAIN_MAX

\* C24: a powered device in a mode without HDR whose registers hold the
\* floor of the HCG stage for a gain above the threshold
C24_Witness ==
  /\ ~mode.hdr /\ powered
  /\ ctrl["gain"].val > IMX586_ANA_GAIN_HCG_THRESHOLD
  /\ hw.FDG_SEL0 = 1
  /\ hw.ANALOG_GAIN = IMX586_ANA_GAIN_HCG_MIN
  /\ hw.ANALOG_GAIN = gain_select(mode, ctrl["gain"].val)[1]
  /\ gain_select(mode, ctrl["gain"].val - 1)[1] <= hw.ANALOG_GAIN

\* C25: a set_control of exposure, gain, vertical or horizontal blanking or
\* a flip on a device in use, in which a register transfer fails, returns an
\* error.
C25_WriteFailureReported ==
  pm_runtime_get_if_in_use(St) =>
    \A name \in Writable : \A v \in CtrlReqs(name) :
      \A r \in SetControlRuns(name, v) :
        Faulty(r.wlog) => r.ret # "OK"

\* C25: a device in use on which a set_control of the gain returns success
\* and commits the new gain although the transfer to the gain register
\* failed, the transfer to the stage register having succeeded
C25_GainFailureSwallowed ==
  /\ pm_runtime_get_if_in_use(St)
  /\ \E v \in CtrlReqs("gain") : \E r \in SetControlRuns("gain", v) :
       /\ \E k \in Transfers(r.wlog, "ANALOG_GAIN") : ~r.wlog[k].ok
       /\ \A k \in Transfers(r.wlog, "FDG_SEL0") : r.wlog[k].ok
       /\ r.ret = "OK"
       /\ r.ctrl["gain"].val = v /\ v # ctrl["gain"].val
       /\ r.hw["ANALOG_GAIN"] # GainRegValue(r)

\* mode.width * 74250000 / mode.min_HMAX in integer division
ReportedPixelRate(m) == MulDiv(m.width, 74250000, m.min_HMAX)

\* TRUE iff the pixel rate control of r holds the pixel rate of r's mode,
\* as its value and as both ends of its range
PixelRateOfMode(r) ==
  /\ r.ctrl["pixel_rate"].val = ReportedPixelRate(r.mode)
  /\ r.ctrl["pixel_rate"].min = ReportedPixelRate(r.mode)
  /\ r.ctrl["pixel_rate"].max = ReportedPixelRate(r.mode)

\* C26: the pixel rate control always holds width * 74250000 / min_HMAX of
\* the device's mode; no change of the vertical or horizontal blanking or of
\* the exposure and no stream start or stop alters it, and a set_format
\* alters it only by committing another mode, after which it holds the value
\* of that mode.
C26_PixelRateFollowsMode ==
  /\ PixelRateOfMode(St)
  /\ \A name \in { "vblank", "hblank", "exposure" } : \A v \in ExpReqs(name) :
       \A r \in SetControlRuns(name, v) : r.ctrl["pixel_rate"] = ctrl["pixel_rate"]
  /\ \A r \in StartOutcomes \cup StopOutcomes : r.ctrl["pixel_rate"] = ctrl["pixel_rate"]
  /\ \A code \in FormatReqs(mono), xfer \in XferFuncs, size \in ExpSizes :
       \A r \in SetFormatRuns("ACTIVE", code, xfer, size) :
         /\ PixelRateOfMode(r)
         /\ r.ctrl["pixel_rate"] # ctrl["pixel_rate"] => r.mode # mode

\* C26: a device whose blanking controls were both changed, from which a
\* set_format commits a mode of another pixel rate
C26_Witness ==
  /\ ctrl["vblank"].val # mode.default_VMAX - mode.height
  /\ HMAX # mode.default_HMAX
  /\ \E code \in FormatReqs(mono), xfer \in XferFuncs, size \in ExpSizes :
       \E r \in SetFormatRuns("ACTIVE", code, xfer, size) :
         /\ r.mode # mode
         /\ r.ctrl["pixel_rate"].val # ctrl["pixel_rate"].val
         /\ PixelRateOfMode(r)

\* TRUE iff r is the device with mode m and code c committed and the
\* default timing of m in force
CommittedWithDefaults(r, m, c) ==
  /\ r.ret = "OK"
  /\ r.mode = m
  /\ r.fmt_code = c
  /\ r.VMAX = m.default_VMAX
  /\ r.HMAX = m.default_HMAX
  /\ r.ctrl["vblank"].min = m.min_VMAX - m.height
  /\ r.ctrl["vblank"].max = IMX586_VMAX_MAX - m.height
  /\ r.ctrl["vblank"].val = m.default_VMAX - m.height
  /\ r.ctrl["hblank"].val = Clamp(default_hblank(m), 0, IMX586_HMAX_MAX)
  /\ hblank_to_hmax(m, r.ctrl["hblank"].val) = m.default_HMAX

\* C27: a set_format on the active format that resolves to a mode other
\* than the current one leaves that mode and the resolved code committed,
\* VMAX and HMAX at the mode's defaults, the vblank control with the range
\* [min_VMAX - height, 0xFFFFF - height] and the value default_VMAX - height,
\* and the hblank control at the blanking of the default line length.
C27_CommitAppliesDefaults ==
  \A code \in FormatReqs(mono), xfer \in XferFuncs, size \in ExpSizes :
    ResolvedMode(code, xfer, size) # mode =>
      \A r \in SetFormatRuns("ACTIVE", code, xfer, size) :
        CommittedWithDefaults(r, ResolvedMode(code, xfer, size),
                              imx586_get_format_code(mono, code, code))

\* C27: a streaming device on which a set_format commits another mode and
\* returns success while a transfer failed, VMAX being the new mode's
\* default and the vblank control keeping the value of the old mode
C27_DefaultsNotApplied ==
  /\ streaming
  /\ \E code \in FormatReqs(mono), xfer \in XferFuncs, size \in ExpSizes :
       /\ ResolvedMode(code, xfer, size) # mode
       /\ \E r \in SetFormatRuns("ACTIVE", code, xfer, size) :
            /\ Faulty(r.wlog)
            /\ r.ret = "OK"
            /\ r.mode = ResolvedMode(code, xfer, size)
            /\ r.VMAX = r.mode.default_VMAX
            /\ r.ctrl["vblank"].val = ctrl["vblank"].val
            /\ r.ctrl["vblank"].val # r.mode.default_VMAX - r.mode.height

\* the transfer logs of the start sequences the device may run next: those
\* of a start request on a stopped device and those of a resume of a
\* device suspended while streaming
StartLogs ==
  IF ~streaming /\ ~suspended THEN { r.wlog : r \in StartOutcomes }
  ELSE IF streaming /\ suspended THEN { r.wlog : r \in ResumeOutcomes }
  ELSE {}

\* TRUE iff the start sequence of log got past the register list of the mode
PastModeList(log) == \E k \in Transfers(log, "MODE_LIST") : log[k].ok

\* TRUE iff log holds one transfer to each register of regs, in that order,
\* carrying the values vals
WrittenOnce(log, regs, vals) ==
  /\ \A i \in 1..Len(regs) :
       /\ Cardinality(Transfers(log, regs[i])) = 1
       /\ \A k \in Transfers(log, regs[i]) : log[k].val = vals[i]
  /\ \A i \in 1..(Len(regs) - 1) :
       \A k \in Transfers(log, regs[i]) : (k + 1) \in Transfers(log, regs[i + 1])

\* TRUE iff log holds no transfer to a register of regs
NeverWritten(log, regs) == \A i \in 1..Len(regs) : Transfers(log, regs[i]) = {}

CompressionRegs == << "CCMP1_EXP", "ACMP1_EXP", "CCMP2_EXP", "ACMP2_EXP" >>

HdrRegs == << "EXP_TH_H", "EXP_TH_L", "EXP_BK" >>

\* C28: every start sequence that gets past the mode's register list writes
\* the four gradation-compression registers once: thresholds 500 and 11500
\* with slope codes 2 and 6 when the mode at the start has linear = FALSE,
\* four zeros when it has linear = TRUE; a start sequence that stops earlier
\* writes none of them.
C28_CompressionCurve ==
  \A log \in StartLogs :
    IF PastModeList(log)
    THEN WrittenOnce(log, CompressionRegs,
                     IF mode.linear THEN << 0, 0, 0, 0 >> ELSE << 500, 2, 11500, 6 >>)
    ELSE NeverWritten(log, CompressionRegs)

\* C28: a stopped device in a mode with linear = FALSE whose start writes
\* the curve and ends streaming
C28_Witness ==
  /\ ~streaming /\ ~suspended /\ ~mode.linear
  /\ \E r \in StartOutcomes :
       /\ r.ret = "OK" /\ r.streaming /\ ~Faulty(r.wlog)
       /\ WrittenOnce(r.wlog, CompressionRegs, << 500, 2, 11500, 6 >>)

\* C29: every start sequence that gets past the mode's register list writes
\* the HDR threshold-high, threshold-low and blend registers, once each with
\* their fixed values, if the mode at the start has hdr = TRUE, and none of
\* them if it has hdr = FALSE; a start sequence that stops earlier writes
\* none of them.
C29_HdrRegisters ==
  \A log \in StartLogs :
    IF PastModeList(log) /\ mode.hdr
    THEN WrittenOnce(log, HdrRegs, << EXP_TH_H_VALUE, EXP_TH_L_VALUE, 0 >>)
    ELSE NeverWritten(log, HdrRegs)

\* C29: a device suspended while streaming in a linear HDR mode whose resume
\* writes the three HDR registers
C29_Witness ==
  /\ streaming /\ suspended /\ mode.hdr /\ mode.linear
  /\ \E r \in ResumeOutcomes :
       /\ r.ret = "OK" /\ ~Faulty(r.wlog)
       /\ WrittenOnce(r.wlog, HdrRegs, << EXP_TH_H_VALUE, EXP_TH_L_VALUE, 0 >>)

\* C30: a set_format on the try format with a code of the device's table
\* returns success, issues no transfer and changes nothing but the try
\* format, which becomes the format of the resolved mode: mode, committed
\* code, HMAX, VMAX, the controls, the streaming flag, the power state and
\* the registers are as before.
C30_TryLeavesCommitted ==
  \A code \in CapabilityCodes(mono), xfer \in Hints, size \in FmtSizes :
    \A r \in SetFormatRuns("TRY", code, xfer, size) :
      /\ r.ret = "OK"
      /\ r.wlog = << >>
      /\ r = [St EXCEPT !.try_fmt = r.try_fmt]
      /\ r.try_fmt = image_pad_format(ResolvedMode(code, xfer, size),
                                      imx586_get_format_code(mono, code, code))

\* C30: a streaming device whose try format is not that of its mode, on
\* which a set_format on the try format proposes yet another mode
C30_Witness ==
  /\ streaming
  /\ try_fmt # image_pad_format(mode, fmt_code)
  /\ \E code \in CapabilityCodes(mono), xfer \in Hints, size \in FmtSizes :
       \E r \in SetFormatRuns("TRY", code, xfer, size) :
         /\ r.try_fmt # try_fmt
         /\ ResolvedMode(code, xfer, size) # mode
         /\ r.mode = mode /\ r.hw = hw

\* C31: after a successful set_format on the active format with a code of
\* the device's table, get_format on the active format returns the code,
\* width and height that the set_format returned.
C31_GetReturnsWhatSetReturned ==
  \A code \in CapabilityCodes(mono), xfer \in Hints, size \in FmtSizes :
    \A r \in SetFormatRuns("ACTIVE", code, xfer, size) :
      r.ret = "OK" =>
        LET set == set_pad_format_reply(St, code, xfer, size[1], size[2], code)
            get == imx586_get_pad_format(r, "ACTIVE")
        IN get.code = set.code /\ get.width = set.width /\ get.height = set.height

\* C31: a set_format on the active format that resolves to the current mode
\* with another code of the same depth returns that code, and the get_format
\* that follows returns the code committed before
C31_StaleCode ==
  \E code \in CapabilityCodes(mono), xfer \in Hints, size \in FmtSizes :
    \E r \in SetFormatRuns("ACTIVE", code, xfer, size) :
      /\ r.ret = "OK"
      /\ ResolvedMode(code, xfer, size) = mode
      /\ set_pad_format_reply(St, code, xfer, size[1], size[2], code).code = code
      /\ imx586_get_pad_format(r, "ACTIVE").code = fmt_code
      /\ code # fmt_code

\* the minimum, maximum and default of every control
CtrlRanges(d) ==
  [n \in DOMAIN d.ctrl |-> << d.ctrl[n].min, d.ctrl[n].max, d.ctrl[n].def >>]

\* C32: while the device streams, the mode list the sensor holds is the list
\* of the current mode, and no set_format on the active format changes the
\* mode, HMAX, VMAX or the range of a control.
C32_StreamingModeFixed ==
  (streaming /\ ~suspended) =>
    /\ hw["MODE_LIST"] = mode.id
    /\ \A r \in SetFormatOutcomes("ACTIVE") :
         /\ r.mode = mode
         /\ r.hw["MODE_LIST"] = r.mode.id
         /\ r.HMAX = HMAX /\ r.VMAX = VMAX
         /\ CtrlRanges(r) = CtrlRanges(St)

\* C32: a streaming sensor that holds the register list of the mode it was
\* started with, on which a set_format on the active format commits another
\* mode with another frame length and keeps streaming
C32_ModeChangedWhileStreaming ==
  /\ streaming /\ ~suspended
  /\ hw["MODE_LIST"] = mode.id
  /\ \E r \in SetFormatOutcomes("ACTIVE") :
       /\ r.ret = "OK" /\ r.streaming
       /\ r.mode # mode
       /\ r.hw["MODE_LIST"] = mode.id
       /\ r.VMAX # VMAX
       /\ CtrlRanges(r) # CtrlRanges(St)

\* C33: the driver holds its runtime-PM reference exactly while the
\* streaming flag is set, and the grab of the vertical flip is in force
\* exactly while the streaming flag is set.
C33_RefAndFreezeFollowStreaming ==
  /\ (usage > 0) <=> streaming
  /\ ctrl["vflip"].grabbed <=> streaming

\* C33: a device that is not suspended and not streaming, yet holds a
\* runtime-PM reference and the grab of the vertical flip
C33_LeakedAfterFailedResume ==
  /\ ~suspended /\ ~streaming
  /\ usage = 1 /\ powered
  /\ ctrl["vflip"].grabbed

\* exposures at the ends of the range derived from the device's timing
ExposureSamples ==
  { e \in { DerivedRange[1], DerivedRange[1] + 1, DerivedRange[2] - 1, DerivedRange[2] } :
      DerivedRange[1] <= e /\ e <= DerivedRange[2] }

\* the value of the SHR transfers of a log
ShrWritten(log) == { log[k].val : k \in { i \in 1..Len(log) : log[i].reg = "SHR" } }

\* C34: at every mode, line length and frame length the device reaches, for
\* every exposure of the derived range the integration hold calculate_shr
\* returns lies in [min_SHR, min(0xFFFF, VMAX - 4)], and the exposure write
\* of a device in use sends exactly that hold.
C34_ShrFitsRegister ==
  /\ mode.min_VMAX <= VMAX /\ VMAX <= IMX586_VMAX_MAX
  /\ \A e \in ExposureSamples :
       LET shr == calculate_shr(e, HMAX, VMAX, SVR, SHR_OFFSET)
       IN /\ mode.min_SHR <= shr
          /\ shr <= Min(65535, VMAX - 4)
          /\ \A r \in SetControlRuns("exposure", e) : ShrWritten(r.wlog) \subseteq { shr }

\* C34: a device in use with a frame longer than 0xFFFF + 4 lines on which
\* the least exposure of the derived range is set: calculate_shr returns
\* 0x10000 and the two-byte write sends 0
C34_ShrTruncated ==
  /\ streaming /\ ~suspended
  /\ VMAX - 4 > 65535
  /\ calculate_shr(DerivedRange[1], HMAX, VMAX, SVR, SHR_OFFSET) = 65536
  /\ \E r \in SetControlRuns("exposure", DerivedRange[1]) :
       /\ r.ret = "OK"
       /\ r.ctrl["exposure"].val = DerivedRange[1]
       /\ ShrWritten(r.wlog) = { 0 }
       /\ r.hw["SHR"] = 0

\* the integration hold of the exposure control's value at the timing of d
ShrOfExposure(d) == calculate_shr(d.ctrl["exposure"].val, d.HMAX, d.VMAX, SVR, SHR_OFFSET)

\* control changes of a device that streams: one more line of vertical
\* blanking and a long frame, a short and the longest line, an exposure near
\* the least and one above every range
StreamingReqs(name) ==
  CASE name = "vblank" -> { ctrl["vblank"].val + 1, 100000 }
    [] name = "hblank" -> { 200, 65535 }
    [] OTHER -> { ctrl["exposure"].min + 1, 200000 }

\* C35: on a streaming device whose SHR register holds the hold of the
\* exposure control's value, every change of the vertical blanking, the
\* horizontal blanking or the exposure that returns success leaves the SHR
\* register at calculate_shr of the exposure value with the new HMAX and VMAX.
C35_ShrFollowsExposure ==
  (streaming /\ ~suspended /\ hw["SHR"] = ShrOfExposure(St)) =>
    \A name \in { "vblank", "hblank", "exposure" } : \A v \in StreamingReqs(name) :
      \A r \in SetControlRuns(name, v) :
        r.ret = "OK" => r.hw["SHR"] = ShrOfExposure(r)

\* C35: a streaming device whose SHR register matches its exposure, on which
\* a change of the vertical blanking succeeds, keeps the exposure value and
\* leaves the SHR register as it was, which is no longer the hold of that
\* exposure at the new frame length
C35_StaleShr ==
  /\ streaming /\ ~suspended
  /\ hw["SHR"] = ShrOfExposure(St)
  /\ \E v \in StreamingReqs("vblank") : \E r \in SetControlRuns("vblank", v) :
       /\ r.ret = "OK"
       /\ r.VMAX # VMAX /\ r.hw["VMAX"] = r.VMAX
       /\ r.ctrl["exposure"].val = ctrl["exposure"].val
       /\ r.hw["SHR"] = hw["SHR"]
       /\ r.hw["SHR"] # ShrOfExposure(r)

\* C36: for every mode of the catalog the default horizontal blanking
\* computed on a mode commit is not negative (the unsigned subtraction does
\* not wrap), is at most 0xFFFF, and the hblank write path turns it back
\* into the mode's default line length.
C36_DefaultHblankRoundTrip ==
  \A m \in AllModes \cup { mode } :
    /\ 0 <= default_hblank(m)
    /\ default_hblank(m) <= IMX586_HMAX_MAX
    /\ hblank_to_hmax(m, default_hblank(m)) = m.default_HMAX

\* C36: a device on which the 1928x1090 mode of line length 366 was
\* committed: its default blanking is one below zero, which the write path
\* would turn into line length 365, and the control holds the clamped 0
C36_NegativeDefaultHblank ==
  /\ mode.width = 1928 /\ mode.default_HMAX = 366
  /\ default_hblank(mode) = -1
  /\ hblank_to_hmax(mode, default_hblank(mode)) = 365
  /\ ctrl["hblank"].val = 0
  /\ HMAX = mode.default_HMAX

\* C37: the device mutex is held only by a caller that is inside one of the
\* operations that take it: whatever the operations and failures before,
\* no caller that has left its operation still holds the lock.
C37_MutexReleased ==
  \A t \in Threads : holder[DeviceMutex] = t => pc[t] \in MutexEntries

\* C37: a task that died inside set_format still holds the device mutex
\* while another caller is outside and can never enter
C37_MutexLeftHeld ==
  \E t1, t2 \in Threads :
    /\ pc[t1] = Oops /\ holder[DeviceMutex] = t1
    /\ pc[t2] = "idle"

====
